---------------------------- MODULE Spec2Model ----------------------------
(***************************************************************************)
(* ESP8266 TFT retro clock (src/src/main_tft.cpp): the 32x16 logical       *)
(* framebuffer scr, the glyph compositor, the three layout routines, the   *)
(* differential renderer refreshAll with its snapshot lastScr, the style   *)
(* renderer drawLEDPixel, the mode scheduler in updateTime, the web        *)
(* configuration handlers, and setup()/loop().                             *)
(***************************************************************************)
EXTENDS Integers, Sequences, FiniteSets, TLC

(* ------------------------- program constants -------------------------- *)
LINE_WIDTH == 32
DISPLAY_ROWS == 2
TOTAL_WIDTH == 32
TOTAL_HEIGHT == 16
LED_SIZE == 10
BG_COLOR == 0
COLOR_RED == 63488
COLOR_GREEN == 2016
COLOR_BLUE == 31
COLOR_YELLOW == 65504
COLOR_CYAN == 2047
COLOR_MAGENTA == 63519
COLOR_WHITE == 65535
COLOR_ORANGE == 64800
COLOR_DARK_GRAY == 31727
COLOR_LIGHT_GRAY == 50712
DEFAULT_DISPLAY_STYLE == 1
MODE_SWITCH_INTERVAL == 5000
SENSOR_UPDATE_INTERVAL == 60000
NTP_SYNC_INTERVAL == 3600000
OFF_LED_COLOR == 6144
OFF_HOUSING_FACTOR == 7
NtpAttempts == 20
NtpPollDelay == 500
LoopDelay == 100
MessageDelay == 1000

Cells == 0 .. (LINE_WIDTH * DISPLAY_ROWS - 1)

(* ------------------------ bitmap fonts (fonts.h) ---------------------- *)
(* Byte layout read by drawCharWithY: fwd, fht, first, last, then one      *)
(* record of 1 + fht8*fwd bytes per character: width, column bytes.        *)
digits5x8rn ==
  <<
    5, 8, 48, 58,
    5, 62, 81, 73, 69, 62,
    3, 66, 127, 64, 0, 0,
    5, 66, 97, 81, 73, 70,
    5, 34, 65, 73, 73, 54,
    5, 24, 20, 18, 127, 16,
    5, 39, 69, 69, 69, 57,
    5, 62, 73, 73, 73, 48,
    5, 1, 113, 9, 5, 3,
    5, 54, 73, 73, 73, 54,
    5, 6, 73, 73, 73, 62,
    1, 20, 0, 0, 0, 0
  >>

digits5x16rn ==
  <<
    5, 16, 48, 58,
    5, 252, 15, 3, 51, 195, 48, 51, 48, 252, 15,
    3, 12, 48, 255, 63, 0, 48, 0, 0, 0, 0,
    5, 12, 48, 3, 60, 3, 51, 195, 48, 60, 48,
    5, 12, 12, 3, 48, 195, 48, 195, 48, 60, 15,
    5, 192, 3, 48, 3, 12, 3, 255, 63, 0, 3,
    5, 63, 12, 51, 48, 51, 48, 51, 48, 195, 15,
    5, 252, 15, 195, 48, 195, 48, 195, 48, 0, 15,
    5, 3, 0, 3, 63, 195, 0, 51, 0, 15, 0,
    5, 60, 15, 195, 48, 195, 48, 195, 48, 60, 15,
    5, 60, 0, 195, 48, 195, 48, 195, 48, 252, 15,
    1, 48, 3, 0, 0, 0, 0, 0, 0, 0, 0
  >>

digits3x5 ==
  <<
    3, 5, 48, 57,
    3, 31, 17, 31,
    3, 18, 31, 16,
    3, 29, 21, 23,
    3, 21, 21, 31,
    3, 7, 4, 31,
    3, 23, 21, 29,
    3, 31, 21, 29,
    3, 1, 25, 7,
    3, 31, 21, 31,
    3, 23, 21, 31
  >>

font3x7 ==
  <<
    3, 7, 32, 90,
    2, 0, 0, 0,
    1, 95, 0, 0,
    3, 7, 0, 7,
    3, 127, 20, 127,
    3, 100, 127, 19,
    3, 115, 8, 103,
    3, 20, 107, 116,
    3, 0, 7, 0,
    3, 0, 28, 99,
    3, 99, 28, 0,
    3, 107, 28, 107,
    3, 8, 28, 8,
    3, 96, 16, 0,
    3, 8, 8, 8,
    1, 64, 0, 0,
    3, 112, 8, 7,
    3, 127, 99, 127,
    3, 100, 127, 96,
    3, 123, 107, 111,
    3, 107, 107, 127,
    3, 15, 8, 127,
    3, 111, 107, 123,
    3, 127, 107, 123,
    3, 3, 115, 15,
    3, 127, 107, 127,
    3, 111, 107, 127,
    1, 20, 0, 0,
    3, 96, 20, 0,
    3, 8, 20, 99,
    3, 20, 20, 20,
    3, 99, 20, 8,
    3, 3, 107, 7,
    3, 127, 107, 111,
    3, 124, 11, 124,
    3, 127, 107, 20,
    3, 28, 99, 99,
    3, 127, 99, 28,
    3, 127, 107, 99,
    3, 127, 11, 3,
    3, 28, 99, 123,
    3, 127, 8, 127,
    1, 127, 0, 0,
    3, 16, 96, 31,
    3, 127, 8, 119,
    3, 127, 96, 96,
    3, 127, 12, 127,
    3, 127, 3, 124,
    3, 28, 99, 28,
    3, 127, 11, 4,
    3, 28, 115, 124,
    3, 127, 11, 116,
    3, 100, 107, 19,
    3, 3, 127, 3,
    3, 127, 96, 127,
    3, 31, 96, 31,
    3, 127, 24, 127,
    3, 119, 8, 119,
    3, 7, 120, 7,
    3, 115, 107, 103
  >>


(* --------------------------- byte arithmetic -------------------------- *)
(* 1 << bitPos for the 8 bits of a byte *)
BitMasks == <<1, 2, 4, 8, 16, 32, 64, 128>>

(* (b & (1 << k)) != 0 *)
BitSet(b, k) == (b \div BitMasks[k + 1]) % 2 = 1

(* int: 32 bits, two's complement *)
INT_MAX == 2147483647
INT_MIN == -INT_MAX - 1

(* n + 1 in int: past INT_MAX the add instruction of the target wraps round *)
IntInc(n) == IF n = INT_MAX THEN INT_MIN ELSE n + 1

(* C integer division truncates toward zero *)
CDiv(a, b) ==
  IF b = INT_MIN THEN (IF a = INT_MIN THEN 1 ELSE 0)
  ELSE IF (a >= 0) = (b > 0)
    THEN (IF a >= 0 THEN a ELSE -a) \div (IF b > 0 THEN b ELSE -b)
    ELSE -((IF a >= 0 THEN a ELSE -a) \div (IF b > 0 THEN b ELSE -b))

(* pgm_read_byte(font + k) for k inside the array *)
pgm_read_byte(font, k) == font[k + 1]

InFont(font, k) == k >= 0 /\ k < Len(font)

(* ------------------------------ text ---------------------------------- *)
Ch(s) ==
  CASE s = " " -> 32 [] s = "%" -> 37 [] s = "-" -> 45 [] s = "/" -> 47
    [] s = "0" -> 48 [] s = ":" -> 58
    [] s = "A" -> 65 [] s = "C" -> 67 [] s = "D" -> 68 [] s = "E" -> 69
    [] s = "F" -> 70 [] s = "H" -> 72 [] s = "I" -> 73 [] s = "K" -> 75
    [] s = "M" -> 77 [] s = "N" -> 78 [] s = "O" -> 79 [] s = "P" -> 80
    [] s = "R" -> 82 [] s = "S" -> 83 [] s = "T" -> 84 [] s = "U" -> 85
    [] s = "W" -> 87 [] s = "Y" -> 89

Text(letters) == [k \in 1 .. Len(letters) |-> Ch(letters[k])]

(* sprintf("%d", n) *)
RECURSIVE DecNat(_)
DecNat(n) ==
  IF n < 10 THEN <<Ch("0") + n>>
  ELSE Append(DecNat(n \div 10), Ch("0") + (n % 10))

Dec(n) == IF n < 0 THEN <<Ch("-")>> \o DecNat(-n) ELSE DecNat(n)

(* sprintf("%02d", n) *)
Dec2(n) == IF n >= 0 /\ n < 10 THEN <<Ch("0")>> \o DecNat(n) ELSE Dec(n)

(* ---------------------------- framebuffer ----------------------------- *)
(* faulty variant: only the top band is cleared *)
clearScreen_topBand(s) == [i \in Cells |-> IF i < LINE_WIDTH THEN 0 ELSE s[i]]

(* clearScreen() applied to framebuffer s *)
clearScreen(s) == [i \in Cells |-> 0]

(* drawCharWithY writes scr[bufferIndex] in program order.  Its writes are *)
(* collected in a map m from the cells to the byte written last, -1 for a *)
(* cell not written, and then laid over the framebuffer.                  *)
Unwritten == [idx \in Cells |-> -1]

(* faulty variant: the column guard x + i < LINE_WIDTH is missing, only   *)
(* the index guard is left                                                *)
PutByte_noColumnGuard(m, x, yPos, j, i, value) ==
  IF /\ x + LINE_WIDTH * (j + yPos) + i >= 0
     /\ x + LINE_WIDTH * (j + yPos) + i < LINE_WIDTH * DISPLAY_ROWS
    THEN [m EXCEPT ![x + LINE_WIDTH * (j + yPos) + i] = value]
    ELSE m

(* scr[bufferIndex] = value for column x + i of band j + yPos, behind the  *)
(* column guard and the index guard                                       *)
PutByte(m, x, yPos, j, i, value) ==
  IF /\ x + i >= 0 /\ x + i < LINE_WIDTH
     /\ x + LINE_WIDTH * (j + yPos) + i >= 0
     /\ x + LINE_WIDTH * (j + yPos) + i < LINE_WIDTH * DISPLAY_ROWS
    THEN [m EXCEPT ![x + LINE_WIDTH * (j + yPos) + i] = value]
    ELSE m

(* for (i = 0; i < w; i++) of band j from column i on, then the zero      *)
(* column at i = w; rec is the offset of the glyph's record in the font   *)
RECURSIVE GlyphColumns(_, _, _, _, _, _, _, _, _)
GlyphColumns(m, x, yPos, font, rec, fht8, w, j, i) ==
  IF i >= w
    THEN PutByte(m, x, yPos, j, i, 0)
    ELSE GlyphColumns(
           PutByte(m, x, yPos, j, i, pgm_read_byte(font, rec + 1 + fht8 * i + j)),
           x, yPos, font, rec, fht8, w, j, i + 1)

(* for (j = 0; j < fht8; j++) from band j on *)
RECURSIVE GlyphBands(_, _, _, _, _, _, _, _)
GlyphBands(m, x, yPos, font, rec, fht8, w, j) ==
  IF j >= fht8
    THEN m
    ELSE GlyphBands(GlyphColumns(m, x, yPos, font, rec, fht8, w, j, 0),
                    x, yPos, font, rec, fht8, w, j + 1)

(* the framebuffer s after the writes m *)
Written(s, m) == [idx \in Cells |-> IF m[idx] < 0 THEN s[idx] ELSE m[idx]]

(* the offset of character c's record: font += 4 + c * (fht8 * fwd + 1) *)
GlyphRecord(c, font) ==
  4 + (c - pgm_read_byte(font, 2))
        * (((pgm_read_byte(font, 1) + 7) \div 8) * pgm_read_byte(font, 0) + 1)

(* faulty variant: a character outside the font is drawn as its first one *)
drawCharWithY_noRangeCheck(s, x, yPos, c, font) ==
  [scr |-> Written(s, GlyphBands(Unwritten, x, yPos, font, 4,
                                 (pgm_read_byte(font, 1) + 7) \div 8,
                                 pgm_read_byte(font, 4), 0)),
   w |-> pgm_read_byte(font, 4)]

(* drawCharWithY on framebuffer s: the framebuffer it leaves and the      *)
(* advance it returns                                                     *)
drawCharWithY(s, x, yPos, c, font) ==
  IF c < pgm_read_byte(font, 2) \/ c > pgm_read_byte(font, 3)
    THEN [scr |-> s, w |-> 0]
    ELSE [scr |-> Written(s, GlyphBands(Unwritten, x, yPos, font, GlyphRecord(c, font),
                                        (pgm_read_byte(font, 1) + 7) \div 8,
                                        pgm_read_byte(font, GlyphRecord(c, font)), 0)),
          w |-> pgm_read_byte(font, GlyphRecord(c, font))]

drawChar(s, x, c, font) == drawCharWithY(s, x, 0, c, font)

(* charWidth walks the records with stride w*fht + 1 (fht in pixels),     *)
(* reading each w at the current offset.  A read past the end of the font *)
(* array returns whatever byte the build placed there.                    *)
(* bytes that a read past the end of a font array can return (a sample of
   0 .. 255) *)
OobSample == {0, 255}

RECURSIVE charWidthOffset(_, _, _)
charWidthOffset(font, offset, n) ==
  IF n = 0 \/ ~InFont(font, offset) THEN offset
  ELSE charWidthOffset(
         font,
         offset + pgm_read_byte(font, offset) * pgm_read_byte(font, 1) + 1,
         n - 1)

(* the values charWidth(c, font) can return *)
charWidth(c, font) ==
  LET firstChar == pgm_read_byte(font, 2)
      lastChar == pgm_read_byte(font, 3)
      offset == charWidthOffset(font, 4, c - firstChar)
  IN  IF c < firstChar \/ c > lastChar THEN {0}
      ELSE IF InFont(font, offset) THEN {pgm_read_byte(font, offset)}
      ELSE OobSample

(* the values stringWidth(str, font) can return *)
RECURSIVE stringWidthFrom(_, _, _)
stringWidthFrom(str, k, font) ==
  IF k > Len(str) THEN {0}
  ELSE {a + b + 1 : a \in charWidth(str[k], font),
                    b \in stringWidthFrom(str, k + 1, font)}

stringWidth(str, font) == {w - 1 : w \in stringWidthFrom(str, 1, font)}

(* ---------------------- glyph loops of the layouts -------------------- *)
(* st = [scr, x]; each loop returns the framebuffer and the cursor.       *)

(* for (p...) { x += draw(p); if (p[1]) x++; } *)
RECURSIVE DrawTight(_, _, _, _, _)
DrawTight(st, str, k, yPos, font) ==
  IF k > Len(str) THEN st
  ELSE LET d == drawCharWithY(st.scr, st.x, yPos, str[k], font)
           x1 == st.x + d.w
           x2 == IF k < Len(str) THEN x1 + 1 ELSE x1
       IN  DrawTight([scr |-> d.scr, x |-> x2], str, k + 1, yPos, font)

(* for (p...) if (x < LINE_WIDTH - 3) { x += draw(p);                      *)
(*                 if (p[1] && x < spaceLimit) x++; }                    *)
RECURSIVE DrawFit(_, _, _, _, _, _)
DrawFit(st, str, k, yPos, font, spaceLimit) ==
  IF k > Len(str) THEN st
  ELSE IF st.x < LINE_WIDTH - 3
    THEN LET d == drawCharWithY(st.scr, st.x, yPos, str[k], font)
             x1 == st.x + d.w
             x2 == IF k < Len(str) /\ x1 < spaceLimit THEN x1 + 1 ELSE x1
         IN  DrawFit([scr |-> d.scr, x |-> x2], str, k + 1, yPos, font, spaceLimit)
    ELSE DrawFit(st, str, k + 1, yPos, font, spaceLimit)

(* for (p...) x += draw(p) + 1; *)
RECURSIVE DrawSpaced(_, _, _, _, _)
DrawSpaced(st, str, k, yPos, font) ==
  IF k > Len(str) THEN st
  ELSE LET d == drawCharWithY(st.scr, st.x, yPos, str[k], font)
       IN  DrawSpaced([scr |-> d.scr, x |-> st.x + d.w + 1], str, k + 1, yPos, font)

(* --------------------------- layout routines -------------------------- *)
(* g: the globals a layout reads (hours, hours24, minutes, seconds, day,  *)
(* month, year, use24HourFormat, sensorAvailable, temperature, humidity,  *)
(* useFahrenheit); s: the framebuffer on entry.                           *)

displayHours(g) == IF g.use24HourFormat THEN g.hours24 ELSE g.hours

(* faulty variant: the colon does not blink *)
showDots_always(g) == TRUE

showDots(g) == (g.seconds % 2) = 0

(* Each layout is a chain of steps on st = [scr, x], in source order.      *)

(* clearScreen(); int x = x0 *)
StartAt(s, x0) == [scr |-> clearScreen(s), x |-> x0]

(* x += n *)
Advance(st, n) == [scr |-> st.scr, x |-> st.x + n]

(* x = x0 *)
MoveTo(st, x0) == [scr |-> st.scr, x |-> x0]

(* the cursor after a glyph d drawn at st, plus gap *)
AfterGlyph(st, d, gap) == [scr |-> d.scr, x |-> st.x + d.w + gap]

(* x += drawCharWithY(x, yPos, c, font); x += gap *)
PutChar(st, yPos, c, font, gap) ==
  AfterGlyph(st, drawCharWithY(st.scr, st.x, yPos, c, font), gap)

(* sprintf(buf, "%d", displayHours) and its glyph loop *)
HoursStep(st, g, font) == DrawTight(st, Dec(displayHours(g)), 1, 0, font)

(* sprintf(buf, "%02d", minutes) and its glyph loop *)
MinutesStep(st, g, font) == DrawTight(st, Dec2(g.minutes), 1, 0, font)

(* faulty variant: the hidden colon reserves six columns *)
Colon8_wide(st, g) ==
  IF showDots(g) THEN PutChar(st, 0, Ch(":"), digits5x8rn, 1) ELSE Advance(st, 6)

(* colon of the 8-pixel layouts: glyph plus one column, or two columns *)
Colon8(st, g) ==
  IF showDots(g) THEN PutChar(st, 0, Ch(":"), digits5x8rn, 1) ELSE Advance(st, 2)

(* colon of the 16-pixel layout: glyph alone, or one column *)
Colon16(st, g) ==
  IF showDots(g) THEN PutChar(st, 0, Ch(":"), digits5x16rn, 0) ELSE Advance(st, 1)

EnvText(g) ==
  IF g.sensorAvailable
    THEN <<Ch("T")>>
           \o Dec(IF g.useFahrenheit THEN CDiv(g.temperature * 9, 5) + 32
                                      ELSE g.temperature)
           \o <<IF g.useFahrenheit THEN Ch("F") ELSE Ch("C"), Ch(" "), Ch("H")>>
           \o Dec(g.humidity) \o <<Ch("%")>>
    ELSE Text(<<"N", "O", " ", "S", "E", "N", "S", "O", "R">>)

(* displayTimeAndTemp: if (x + 7 <= LINE_WIDTH) the seconds loop *)
TempSecondsIfRoom(st, g) ==
  IF st.x + 7 <= LINE_WIDTH
    THEN DrawFit(st, Dec2(g.seconds), 1, 0, digits3x5, LINE_WIDTH)
    ELSE st

(* faulty variant: canShowSeconds stays true in 24-hour format *)
TempSeconds_always(st, g) == TempSecondsIfRoom(Advance(st, 1), g)

(* displayTimeAndTemp: if (canShowSeconds) { x++; ... } *)
TempSeconds(st, g) ==
  IF ~(g.use24HourFormat /\ g.hours24 >= 10)
    THEN TempSecondsIfRoom(Advance(st, 1), g)
    ELSE st

(* displayTimeAndTemp: x = 0; the bottom row *)
TempEnvRow(st, g) == DrawFit(MoveTo(st, 0), EnvText(g), 1, 1, font3x7, LINE_WIDTH)

displayTimeAndTemp(s, g) ==
  TempEnvRow(
    TempSeconds(
      MinutesStep(Colon8(HoursStep(StartAt(s, 0), g, digits5x8rn), g), g, digits5x8rn),
      g),
    g).scr

displayTimeLarge(s, g) ==
  DrawFit(
    Advance(
      MinutesStep(
        Colon16(
          HoursStep(StartAt(s, IF displayHours(g) > 9 THEN 0 ELSE 3), g, digits5x16rn),
          g),
        g, digits5x16rn),
      1),
    Dec2(g.seconds), 1, 0, font3x7, LINE_WIDTH - 3).scr

(* sprintf(buf, "%02d/%02d/%02d", day, month, year % 100) *)
DateText(g) ==
  Dec2(g.day) \o <<Ch("/")>> \o Dec2(g.month) \o <<Ch("/")>> \o Dec2(g.year % 100)

displayTimeAndDate(s, g) ==
  DrawSpaced(
    MoveTo(
      DrawFit(
        Advance(
          MinutesStep(Colon8(HoursStep(StartAt(s, 0), g, digits5x8rn), g), g, digits5x8rn),
          1),
        Dec2(g.seconds), 1, 0, digits3x5, LINE_WIDTH - 3),
      2),
    DateText(g), 1, 1, font3x7).scr

(* switch (currentMode) { case 0: ... case 1: ... case 2: ... } *)
Layout(mode, s, g) ==
  CASE mode = 0 -> displayTimeAndTemp(s, g)
    [] mode = 1 -> displayTimeLarge(s, g)
    [] mode = 2 -> displayTimeAndDate(s, g)
    [] OTHER -> s

(* --------------------------- style renderer --------------------------- *)
(* faulty variant: the packed colour is divided as one number *)
dimRGB565_packed(color, factor) == CDiv(color, IntInc(factor))

(* Dim an RGB565 colour: each channel divided by factor + 1; the result is *)
(* converted to uint16_t                                                   *)
dimRGB565(color, factor) ==
  LET r == (color \div 2048) % 32
      g == (color \div 32) % 64
      b == color % 32
  IN  (CDiv(r, IntInc(factor)) * 2048 + CDiv(g, IntInc(factor)) * 32
         + CDiv(b, IntInc(factor))) % 65536

TileDots == 0 .. (LED_SIZE * LED_SIZE - 1)

(* faulty variant: a lit pixel gets a one-dot frame in the bezel colour in *)
(* every style                                                            *)
drawLEDPixel_bezel(lit, style, onColor, surroundColor) ==
  [q \in TileDots |->
     IF ~lit THEN BG_COLOR
     ELSE IF q % LED_SIZE \in {0, LED_SIZE - 1} \/ q \div LED_SIZE \in {0, LED_SIZE - 1}
       THEN surroundColor
     ELSE onColor]

(* drawLEDPixel: the colours left in the LED_SIZE x LED_SIZE rectangle at  *)
(* (screenX, screenY), as a function of px + LED_SIZE * py.  Every branch  *)
(* begins with fillRect over the whole rectangle (or writes all of it), so *)
(* the result does not depend on what the rectangle held before.           *)
drawLEDPixel(lit, style, onColor, surroundColor) ==
  [q \in TileDots |->
     LET px == q % LED_SIZE
         py == q \div LED_SIZE
     IN  IF style = 0
           THEN (IF lit THEN onColor ELSE BG_COLOR)
         ELSE IF ~lit
           THEN LET dx == (px - 1) * 2 - 7
                    dy == (py - 1) * 2 - 7
                    distSq == dx * dx + dy * dy
                IN  IF px >= 1 /\ px < 9 /\ py >= 1 /\ py < 9 /\ distSq <= 42
                      THEN OFF_LED_COLOR
                    ELSE IF px >= 1 /\ px < 9 /\ py >= 1 /\ py < 9 /\ distSq <= 58
                      THEN dimRGB565(surroundColor, OFF_HOUSING_FACTOR)
                    ELSE BG_COLOR
         ELSE LET dx == px * 2 - 9
                  dy == py * 2 - 9
                  distSq == dx * dx + dy * dy
              IN  IF distSq <= 18 THEN onColor
                  ELSE IF distSq <= 38 THEN onColor
                  ELSE IF distSq <= 62 THEN surroundColor
                  ELSE BG_COLOR]

(* tft.fillScreen(BG_COLOR) leaves every rectangle black *)
BlankTile == [q \in TileDots |-> BG_COLOR]

(* The colours the handlers can select (the /style switch statements) *)
LedColors ==
  <<COLOR_RED, COLOR_GREEN, COLOR_BLUE, COLOR_YELLOW,
    COLOR_CYAN, COLOR_MAGENTA, COLOR_WHITE, COLOR_ORANGE>>

SurroundColors ==
  <<COLOR_WHITE, COLOR_LIGHT_GRAY, COLOR_DARK_GRAY, COLOR_RED,
    COLOR_GREEN, COLOR_BLUE, COLOR_YELLOW>>

(* every colour a handler can put in ledOnColor or ledSurroundColor *)
PaletteSeq == LedColors \o <<COLOR_LIGHT_GRAY, COLOR_DARK_GRAY>>

ColorNo(c) == CHOOSE n \in 1 .. Len(PaletteSeq) : PaletteSeq[n] = c

(* the number of a paint job (lit, style, onColor, surroundColor) *)
PaintKey(lit, style, onColor, surroundColor) ==
  (((IF lit THEN 1 ELSE 0) * 2 + style) * Len(PaletteSeq) + (ColorNo(onColor) - 1))
    * Len(PaletteSeq) + ColorNo(surroundColor)

PaintJobs == 4 * Len(PaletteSeq) * Len(PaletteSeq)

(* the 10x10 content paint job number k leaves in its rectangle *)
PaintTile(k) ==
  LET n == Len(PaletteSeq)
  IN  drawLEDPixel(((k - 1) \div (2 * n * n)) = 1, ((k - 1) \div (n * n)) % 2,
                   PaletteSeq[(((k - 1) \div n) % n) + 1], PaletteSeq[((k - 1) % n) + 1])

RECURSIVE TileRows(_, _)
TileRows(lo, hi) ==
  IF lo = hi THEN <<PaintTile(lo)>>
  ELSE TileRows(lo, (lo + hi) \div 2) \o TileRows((lo + hi) \div 2 + 1, hi)

(* The physical screen is held per LED rectangle as the number of its      *)
(* 10x10 content in the table of all contents the program can leave there: *)
(* the black of fillScreen, then what each paint job draws.  Equal numbers *)
(* mean equal pixels.                                                      *)
TileTable == <<BlankTile>> \o TileRows(1, PaintJobs)

TileNo(tile) == CHOOSE n \in 1 .. Len(TileTable) : TileTable[n] = tile

RECURSIVE PaintRows(_, _)
PaintRows(lo, hi) ==
  IF lo = hi THEN <<TileNo(TileTable[lo + 1])>>
  ELSE PaintRows(lo, (lo + hi) \div 2) \o PaintRows((lo + hi) \div 2 + 1, hi)

(* number of the rectangle content drawLEDPixel leaves, by paint job *)
PaintTable == PaintRows(1, PaintJobs)

PaintNo(lit, style, onColor, surroundColor) ==
  PaintTable[PaintKey(lit, style, onColor, surroundColor)]

BlankNo == TileNo(BlankTile)

(* The screen holds, for buffer index displayX + row * LINE_WIDTH and bit  *)
(* position bitPos, the content of the LED rectangle of logical pixel      *)
(* (displayX, row * 8 + bitPos).                                           *)
BitPositions == 0 .. 7

(* tft.fillScreen(BG_COLOR) *)
fillScreen == [i \in Cells |-> [bitPos \in BitPositions |-> BlankNo]]

(* the 8 rectangles of a cell holding pixelByte, drawLEDPixel leaving litNo *)
(* for a set bit and unlitNo for a clear one                               *)
CellPaint(pixelByte, litNo, unlitNo) ==
  [bitPos \in BitPositions |-> IF BitSet(pixelByte, bitPos) THEN litNo ELSE unlitNo]

(* ----------------------- faulty variants of refreshAll ---------------- *)
(* the snapshot is not updated for the cells drawn *)
refreshAll_keepSnapshot(s, last, first, force, scrn, style, onColor, surroundColor) ==
  LET last1 == IF force THEN [i \in Cells |-> 255] ELSE last
      first1 == IF force THEN TRUE ELSE first
      redraw == {i \in Cells : first1 \/ s[i] # last1[i]}
      litNo == PaintNo(TRUE, style, onColor, surroundColor)
      unlitNo == PaintNo(FALSE, style, onColor, surroundColor)
  IN  [lastScr |-> last1,
       firstRun |-> FALSE,
       forceFullRedraw |-> FALSE,
       screen |-> [i \in Cells |->
                     IF i \in redraw THEN CellPaint(s[i], litNo, unlitNo) ELSE scrn[i]],
       drawn |-> redraw]

(* every cell is drawn in every pass (no change detection) *)
refreshAll_everyCell(s, last, first, force, scrn, style, onColor, surroundColor) ==
  LET litNo == PaintNo(TRUE, style, onColor, surroundColor)
      unlitNo == PaintNo(FALSE, style, onColor, surroundColor)
  IN  [lastScr |-> s,
       firstRun |-> FALSE,
       forceFullRedraw |-> FALSE,
       screen |-> [i \in Cells |-> CellPaint(s[i], litNo, unlitNo)],
       drawn |-> Cells]

(* forceFullRedraw is cleared but does not invalidate the snapshot *)
refreshAll_ignoreForce(s, last, first, force, scrn, style, onColor, surroundColor) ==
  LET redraw == {i \in Cells : first \/ s[i] # last[i]}
      litNo == PaintNo(TRUE, style, onColor, surroundColor)
      unlitNo == PaintNo(FALSE, style, onColor, surroundColor)
  IN  [lastScr |-> [i \in Cells |-> IF i \in redraw THEN s[i] ELSE last[i]],
       firstRun |-> FALSE,
       forceFullRedraw |-> FALSE,
       screen |-> [i \in Cells |->
                     IF i \in redraw THEN CellPaint(s[i], litNo, unlitNo) ELSE scrn[i]],
       drawn |-> redraw]

(* ------------------------------ refreshAll ---------------------------- *)
(* s: scr; last, first: the statics lastScr, firstRun; force:              *)
(* forceFullRedraw; scrn: the screen.  drawn: the cells it rasterized.     *)
refreshAll(s, last, first, force, scrn, style, onColor, surroundColor) ==
  LET last1 == IF force THEN [i \in Cells |-> 255] ELSE last
      first1 == IF force THEN TRUE ELSE first
      redraw == {i \in Cells : first1 \/ s[i] # last1[i]}
      litNo == PaintNo(TRUE, style, onColor, surroundColor)
      unlitNo == PaintNo(FALSE, style, onColor, surroundColor)
  IN  [lastScr |-> [i \in Cells |-> IF i \in redraw THEN s[i] ELSE last1[i]],
       firstRun |-> FALSE,
       forceFullRedraw |-> FALSE,
       screen |-> [i \in Cells |->
                     IF i \in redraw
                       THEN CellPaint(s[i], litNo, unlitNo)
                       ELSE scrn[i]],
       drawn |-> redraw]

(* ------------------------ unsigned 32-bit millis ---------------------- *)
(* An unsigned long is held as <<high 16 bits, low 16 bits>>.             *)
Half == 65536

U32(n) == <<(n \div Half) % Half, n % Half>>

U32Add(a, d) ==
  LET lo == a[2] + (d % Half)
      hi == a[1] + (d \div Half) + (lo \div Half)
  IN  <<hi % Half, lo % Half>>

(* a - b in unsigned arithmetic (wraps modulo 2^32) *)
U32Sub(a, b) ==
  LET lo == a[2] - b[2]
      hi == a[1] - b[1] - (IF lo < 0 THEN 1 ELSE 0)
  IN  <<hi % Half, lo % Half>>

U32Gt(a, b) == a[1] > b[1] \/ (a[1] = b[1] /\ a[2] > b[2])

U32Ge(a, b) == a = b \/ U32Gt(a, b)

(* ------------------------------ bounds -------------------------------- *)
MaxLoops == 3
MaxRequests == 1

(* --------------------------- environment ------------------------------ *)
(* durations of one pass of loop(), at least its delay(100) *)
LoopTimes == {5 * LoopDelay, MODE_SWITCH_INTERVAL + 5 * LoopDelay}

(* time WiFiManager.autoConnect spends in its configuration portal *)
PortalTime == 3 * MessageDelay

(* local wall-clock second of the base day at which the board booted: *)
(* 09:59:58 when SNTP answers inside setup(), 23:59:56 when it answers late *)
StartTimes == {35998}
LateStartTimes == {86396}

(* the date of the base day *)
BaseDate == [day |-> 5, month |-> 12, year |-> 2025]

(* readings of the BME280: <<temperature, humidity>> *)
Readings == {<<23, 45>>, <<-5, 100>>}

(* request arguments *)
(* the "/style" requests served: <<mode=toggle?, ledcolor, surroundcolor>> *)
StyleRequests ==
  {<<TRUE, <<>>, <<>>>>, <<FALSE, <<1>>, <<7>>>>, <<FALSE, <<8>>, <<8>>>>,
   <<FALSE, <<>>, <<>>>>}
TzArgs == {7, 89}

numTimezones == 89

(* UTC offset in seconds of timezones[tz] on the base day: New York (7)   *)
(* on EST, Sydney (0) on AEDT                                             *)
TzOffset(tz) == IF tz = 7 THEN -18000 ELSE 39600

(* localtime_r of the wall clock, the calendar kept inside one month *)
localtime(secs) ==
  [tm_hour |-> (secs \div 3600) % 24,
   tm_min |-> (secs \div 60) % 60,
   tm_sec |-> secs % 60,
   tm_mday |-> BaseDate.day + secs \div 86400,
   tm_mon |-> BaseDate.month - 1,
   tm_year |-> BaseDate.year - 1900]

(* ------------------------------- state -------------------------------- *)
VARIABLES
  pc,                 \* position in setup() / loop()
  scr, lastScr, firstRun, forceFullRedraw,
  screen,             \* physical screen: content number per LED rectangle
  hours, hours24, minutes, seconds, day, month, year, lastSecond,
  use24HourFormat,
  sensorAvailable, temperature, humidity, useFahrenheit,
  displayStyle, ledOnColor, ledSurroundColor, ledOffColor, surroundMatchesLED,
  currentMode, lastModeSwitch, lastSensorUpdate, lastNTPSync, currentTimezone,
  millis,             \* millis(), unsigned 32 bit
  now,                \* real milliseconds since boot
  synced,             \* time(nullptr) >= 24*3600
  bootEpoch,          \* local wall-clock second (zone 0) at boot, once synced
  loops, requests,    \* passes of loop() and requests served so far
  op,                 \* the operation that ran last
  rendered,           \* it called refreshAll
  drawn,              \* the cells that refreshAll rasterized
  forced,             \* forceFullRedraw on entry to that refreshAll
  switchedAt,         \* real time of the last change of currentMode, -1: none
  glyph,              \* the drawCharWithY call under study: arguments, advance
  req,                \* the arguments of the "/style" request served last
  call                \* the call of a pure routine under study: arguments, result

timeVars == <<hours, hours24, minutes, seconds, day, month, year>>
sensorVars == <<sensorAvailable, temperature, humidity>>
styleVars == <<displayStyle, ledOnColor, ledSurroundColor, ledOffColor, surroundMatchesLED>>
bufVars == <<scr, lastScr, firstRun, forceFullRedraw, screen>>
stampVars == <<lastSensorUpdate, lastNTPSync>>
envVars == <<synced, bootEpoch>>
clockVars == <<millis, now>>
modeVars == <<currentMode, switchedAt>>
studyVars == <<glyph, req, call>>

vars ==
  <<pc, scr, lastScr, firstRun, forceFullRedraw, screen,
    hours, hours24, minutes, seconds, day, month, year, lastSecond,
    use24HourFormat, sensorAvailable, temperature, humidity, useFahrenheit,
    displayStyle, ledOnColor, ledSurroundColor, ledOffColor, surroundMatchesLED,
    currentMode, lastModeSwitch, lastSensorUpdate, lastNTPSync, currentTimezone,
    millis, now, synced, bootEpoch, loops, requests, op, rendered, drawn, forced,
    switchedAt, glyph, req, call>>

(* the globals the layout routines read *)
Globals ==
  [hours |-> hours, hours24 |-> hours24, minutes |-> minutes, seconds |-> seconds,
   day |-> day, month |-> month, year |-> year,
   use24HourFormat |-> use24HourFormat, sensorAvailable |-> sensorAvailable,
   temperature |-> temperature, humidity |-> humidity,
   useFahrenheit |-> useFahrenheit]

(* no drawCharWithY call is under study *)
NoGlyph == [x |-> 0, yPos |-> 0, c |-> 0, font |-> "none", w |-> -1]

(* no call of a pure routine is under study *)
NoCall == [routine |-> "none"]

(* no "/style" request has been served *)
NoRequest == <<FALSE, <<>>, <<>>>>

(* faulty variant: the static firstRun starts false *)
firstRunInit_false == FALSE

(* static bool firstRun = true *)
firstRunInit == TRUE

Init ==
  /\ pc = "boot"
  /\ scr = [i \in Cells |-> 0]
  /\ lastScr = [i \in Cells |-> 0]
  /\ firstRun = firstRunInit
  /\ forceFullRedraw = FALSE
  /\ screen = fillScreen
  /\ hours = 0 /\ hours24 = 0 /\ minutes = 0 /\ seconds = 0
  /\ day = 1 /\ month = 1 /\ year = 2025
  /\ lastSecond = -1
  /\ use24HourFormat = FALSE
  /\ sensorAvailable = FALSE /\ temperature = 0 /\ humidity = 0
  /\ useFahrenheit = FALSE
  /\ displayStyle = DEFAULT_DISPLAY_STYLE
  /\ ledOnColor = COLOR_RED
  /\ ledSurroundColor = COLOR_DARK_GRAY
  /\ ledOffColor = 8192
  /\ surroundMatchesLED = FALSE
  /\ currentMode = 0
  /\ lastModeSwitch = U32(0)
  /\ lastSensorUpdate = U32(0)
  /\ lastNTPSync = U32(0)
  /\ currentTimezone = 0
  /\ millis = U32(0)
  /\ now = 0
  /\ synced = FALSE
  /\ bootEpoch = 0
  /\ loops = 0
  /\ requests = 0
  /\ op = "boot"
  /\ rendered = FALSE
  /\ drawn = {}
  /\ forced = FALSE
  /\ switchedAt = -1
  /\ glyph = NoGlyph
  /\ req = NoRequest
  /\ call = NoCall

(* time passes *)
Pass(d) ==
  /\ millis' = U32Add(millis, d)
  /\ now' = now + d

(* the wall clock read by time(nullptr) + localtime_r at real time t *)
WallClock(epoch, tz, t) == localtime(epoch + TzOffset(tz) - TzOffset(0) + t \div 1000)

(* the assignments of hours .. year from a struct tm *)
SetTime(tm) ==
  /\ hours' = (IF tm.tm_hour % 12 = 0 THEN 12 ELSE tm.tm_hour % 12)
  /\ hours24' = tm.tm_hour
  /\ minutes' = tm.tm_min
  /\ seconds' = tm.tm_sec
  /\ day' = tm.tm_mday
  /\ month' = tm.tm_mon + 1
  /\ year' = tm.tm_year + 1900

(* refreshAll() on framebuffer s and screen scrn, with the flag as given *)
Render(s, scrn, force, style, onColor, surroundColor, name) ==
  /\ scr' = s
  /\ LET r == refreshAll(scr', lastScr, firstRun, force, scrn, style, onColor, surroundColor)
     IN
      /\ lastScr' = r.lastScr
      /\ firstRun' = r.firstRun
      /\ forceFullRedraw' = r.forceFullRedraw
      /\ screen' = r.screen
      /\ rendered' = TRUE
      /\ drawn' = r.drawn
      /\ forced' = force
      /\ op' = name

NoRender(name) ==
  /\ rendered' = FALSE
  /\ drawn' = {}
  /\ forced' = FALSE
  /\ op' = name

(* --------------------------- showMessage ------------------------------ *)
(* the start columns showMessage can compute for msg *)
MessageX(msg) ==
  {LET x == CDiv(TOTAL_WIDTH - w, 2)
   IN  IF x < 0 THEN 0 ELSE IF x >= TOTAL_WIDTH THEN TOTAL_WIDTH - 1 ELSE x
   : w \in stringWidth(msg, font3x7)}

showMessage(msg, name) ==
  \E x \in MessageX(msg) :
    Render(DrawSpaced([scr |-> clearScreen(scr), x |-> x], msg, 1, 0, font3x7).scr,
           screen, forceFullRedraw, displayStyle, ledOnColor, ledSurroundColor, name)

MsgInit == Text(<<"I", "N", "I", "T">>)
MsgSetupAp == Text(<<"S", "E", "T", "U", "P", " ", "A", "P">>)
MsgWifiOk == Text(<<"W", "I", "F", "I", " ", "O", "K">>)
MsgTimeOk == Text(<<"T", "I", "M", "E", " ", "O", "K">>)
MsgReady == Text(<<"R", "E", "A", "D", "Y">>)

(* ------------------------------ syncNTP ------------------------------- *)
(* polls of time(nullptr) after which the SNTP answer has arrived *)
NtpWaits == {1}

(* how a call of syncNTP can end: ok, the time it waited, the wall clock *)
NtpOutcomes ==
  IF synced
    THEN {[ok |-> TRUE, wait |-> 0, epoch |-> bootEpoch]}
    ELSE {[ok |-> TRUE, wait |-> a * NtpPollDelay, epoch |-> e] :
            a \in NtpWaits, e \in StartTimes}
         \cup {[ok |-> FALSE, wait |-> NtpAttempts * NtpPollDelay, epoch |-> bootEpoch]}

syncNTP(tz, o) ==
  /\ synced' = o.ok
  /\ bootEpoch' = o.epoch
  /\ IF o.ok
       THEN SetTime(WallClock(o.epoch, tz, now + o.wait))
       ELSE UNCHANGED timeVars

(* ------------------------------ updateTime ---------------------------- *)
(* faulty variant: millis() > lastModeSwitch + MODE_SWITCH_INTERVAL *)
SwitchDue_sum == U32Gt(millis, U32Add(lastModeSwitch, MODE_SWITCH_INTERVAL))

(* faulty variant: the interval is taken twice as long *)
SwitchDue_slow == U32Gt(U32Sub(millis, lastModeSwitch), U32(2 * MODE_SWITCH_INTERVAL))

(* millis() - lastModeSwitch > MODE_SWITCH_INTERVAL *)
SwitchDue == U32Gt(U32Sub(millis, lastModeSwitch), U32(MODE_SWITCH_INTERVAL))

GlobalsAt(tm) ==
  [Globals EXCEPT
     !.hours = IF tm.tm_hour % 12 = 0 THEN 12 ELSE tm.tm_hour % 12,
     !.hours24 = tm.tm_hour, !.minutes = tm.tm_min, !.seconds = tm.tm_sec,
     !.day = tm.tm_mday, !.month = tm.tm_mon + 1, !.year = tm.tm_year + 1900]

(* faulty variant: the cycle skips a screen *)
nextMode_skip(mode) == (mode + 2) % 3

(* currentMode = (currentMode + 1) % 3 *)
nextMode(mode) == (mode + 1) % 3

(* faulty variant: the mode switch is evaluated before the layout runs *)
updateTime_switchFirst(name) ==
  IF ~synced
    THEN /\ UNCHANGED <<timeVars, lastSecond, bufVars, modeVars>>
         /\ NoRender(name)
    ELSE LET tm == WallClock(bootEpoch, currentTimezone, now)
         IN  /\ SetTime(tm)
             /\ IF tm.tm_sec # lastSecond
                  THEN /\ lastSecond' = tm.tm_sec
                       /\ Render(Layout(IF SwitchDue THEN nextMode(currentMode)
                                                     ELSE currentMode,
                                        scr, GlobalsAt(tm)),
                                 screen, forceFullRedraw, displayStyle, ledOnColor,
                                 ledSurroundColor, name)
                  ELSE /\ UNCHANGED <<lastSecond, bufVars>>
                       /\ NoRender(name)
             /\ currentMode' = IF SwitchDue THEN nextMode(currentMode) ELSE currentMode
             /\ switchedAt' = IF SwitchDue THEN now ELSE switchedAt

(* faulty variant: the layout and refreshAll() run in every pass *)
updateTime_everyPass(name) ==
  IF ~synced
    THEN /\ UNCHANGED <<timeVars, lastSecond, bufVars, modeVars>>
         /\ NoRender(name)
    ELSE LET tm == WallClock(bootEpoch, currentTimezone, now)
         IN  /\ SetTime(tm)
             /\ lastSecond' = tm.tm_sec
             /\ Render(Layout(currentMode, scr, GlobalsAt(tm)), screen,
                       forceFullRedraw, displayStyle, ledOnColor,
                       ledSurroundColor, name)
             /\ currentMode' = IF SwitchDue THEN nextMode(currentMode) ELSE currentMode
             /\ switchedAt' = IF SwitchDue THEN now ELSE switchedAt

(* updateTime() without its write of lastModeSwitch *)
updateTime(name) ==
  IF ~synced
    THEN /\ UNCHANGED <<timeVars, lastSecond, bufVars, modeVars>>
         /\ NoRender(name)
    ELSE LET tm == WallClock(bootEpoch, currentTimezone, now)
         IN  /\ SetTime(tm)
             /\ IF tm.tm_sec # lastSecond
                  THEN /\ lastSecond' = tm.tm_sec
                       /\ Render(Layout(currentMode, scr, GlobalsAt(tm)), screen,
                                 forceFullRedraw, displayStyle, ledOnColor,
                                 ledSurroundColor, name)
                  ELSE /\ UNCHANGED <<lastSecond, bufVars>>
                       /\ NoRender(name)
             /\ currentMode' = IF SwitchDue THEN nextMode(currentMode) ELSE currentMode
             /\ switchedAt' = IF SwitchDue THEN now ELSE switchedAt

(* ------------------------------- setup -------------------------------- *)
Restart ==
  /\ pc' = "boot"
  /\ scr' = [i \in Cells |-> 0]
  /\ lastScr' = [i \in Cells |-> 0]
  /\ firstRun' = firstRunInit
  /\ forceFullRedraw' = FALSE
  /\ screen' = fillScreen
  /\ hours' = 0 /\ hours24' = 0 /\ minutes' = 0 /\ seconds' = 0
  /\ day' = 1 /\ month' = 1 /\ year' = 2025
  /\ lastSecond' = -1
  /\ use24HourFormat' = FALSE
  /\ sensorAvailable' = FALSE /\ temperature' = 0 /\ humidity' = 0
  /\ useFahrenheit' = FALSE
  /\ displayStyle' = DEFAULT_DISPLAY_STYLE
  /\ ledOnColor' = COLOR_RED
  /\ ledSurroundColor' = COLOR_DARK_GRAY
  /\ ledOffColor' = 8192
  /\ surroundMatchesLED' = FALSE
  /\ currentMode' = 0
  /\ lastModeSwitch' = U32(0)
  /\ lastSensorUpdate' = U32(0)
  /\ lastNTPSync' = U32(0)
  /\ currentTimezone' = 0
  /\ millis' = U32(0)
  /\ now' = 0
  /\ synced' = FALSE
  /\ bootEpoch' = 0
  /\ loops' = 0
  /\ requests' = 0
  /\ op' = "boot"
  /\ rendered' = FALSE
  /\ drawn' = {}
  /\ forced' = FALSE
  /\ switchedAt' = -1
  /\ UNCHANGED <<studyVars, call>>

(* Serial.begin, delay(1000), initTFT (two delay(100)), showMessage("INIT") *)
ShowInit ==
  /\ pc = "boot"
  /\ pc' = "sensor"
  /\ Pass(MessageDelay + 200 + 20)
  /\ showMessage(MsgInit, "INIT")
  /\ UNCHANGED <<studyVars, timeVars, lastSecond, use24HourFormat, sensorVars, useFahrenheit,
                 styleVars, modeVars, lastModeSwitch, stampVars, currentTimezone,
                 envVars, loops, requests>>

(* sensorAvailable = testSensor(); if (sensorAvailable) updateSensorData() *)
TestSensor ==
  /\ pc = "sensor"
  /\ pc' = "wifi"
  /\ \/ /\ sensorAvailable' = FALSE
        /\ UNCHANGED <<temperature, humidity>>
     \/ \E r \in Readings :
          /\ sensorAvailable' = TRUE
          /\ temperature' = r[1]
          /\ humidity' = r[2]
  /\ NoRender("testSensor")
  /\ UNCHANGED <<studyVars, bufVars, timeVars, lastSecond, use24HourFormat, useFahrenheit,
                 styleVars, modeVars, lastModeSwitch, stampVars, currentTimezone,
                 clockVars, envVars, loops, requests>>

(* autoConnect opens the configuration portal: configModeCallback *)
ConfigPortal ==
  /\ pc = "wifi"
  /\ pc' = "portal"
  /\ Pass(20)
  /\ showMessage(MsgSetupAp, "SETUP AP")
  /\ UNCHANGED <<studyVars, timeVars, lastSecond, use24HourFormat, sensorVars, useFahrenheit,
                 styleVars, modeVars, lastModeSwitch, stampVars, currentTimezone,
                 envVars, loops, requests>>

(* autoConnect failed: ESP.restart() *)
WifiFail ==
  /\ pc = "portal"
  /\ Restart

(* autoConnect succeeded: showMessage("WIFI OK"); delay(1000) *)
WifiOk ==
  /\ pc \in {"wifi", "portal"}
  /\ pc' = "ntp"
  /\ Pass((IF pc = "portal" THEN PortalTime ELSE 0) + 20 + MessageDelay)
  /\ showMessage(MsgWifiOk, "WIFI OK")
  /\ UNCHANGED <<studyVars, timeVars, lastSecond, use24HourFormat, sensorVars, useFahrenheit,
                 styleVars, modeVars, lastModeSwitch, stampVars, currentTimezone,
                 envVars, loops, requests>>

(* syncNTP(); showMessage("TIME OK"); delay(1000) *)
SyncTime ==
  /\ pc = "ntp"
  /\ pc' = "server"
  /\ \E o \in NtpOutcomes :
       /\ syncNTP(currentTimezone, o)
       /\ Pass(o.wait + 20 + MessageDelay)
  /\ showMessage(MsgTimeOk, "TIME OK")
  /\ UNCHANGED <<studyVars, lastSecond, use24HourFormat, sensorVars, useFahrenheit,
                 styleVars, modeVars, lastModeSwitch, stampVars, currentTimezone,
                 loops, requests>>

(* setupWebServer(); showMessage("READY"); delay(1000) *)
Ready ==
  /\ pc = "server"
  /\ pc' = "clear"
  /\ Pass(20 + MessageDelay)
  /\ showMessage(MsgReady, "READY")
  /\ UNCHANGED <<studyVars, timeVars, lastSecond, use24HourFormat, sensorVars, useFahrenheit,
                 styleVars, modeVars, lastModeSwitch, stampVars, currentTimezone,
                 envVars, loops, requests>>

(* clearScreen(); tft.fillScreen(BG_COLOR) *)
SetupClear ==
  /\ pc = "clear"
  /\ pc' = "frame"
  /\ scr' = clearScreen(scr)
  /\ screen' = fillScreen
  /\ NoRender("clear")
  /\ UNCHANGED <<studyVars, lastScr, firstRun, forceFullRedraw, timeVars, lastSecond,
                 use24HourFormat, sensorVars, useFahrenheit, styleVars, modeVars,
                 lastModeSwitch, stampVars, currentTimezone, clockVars, envVars,
                 loops, requests>>

(* updateTime(); lastNTPSync = lastSensorUpdate = lastModeSwitch = millis() *)
FirstFrame ==
  /\ pc = "frame"
  /\ pc' = "handle"
  /\ updateTime("firstFrame")
  /\ lastNTPSync' = millis
  /\ lastSensorUpdate' = millis
  /\ lastModeSwitch' = millis
  /\ UNCHANGED <<studyVars, use24HourFormat, sensorVars, useFahrenheit, styleVars,
                 currentTimezone, clockVars, envVars, loops, requests>>

(* -------------------------------- loop -------------------------------- *)
(* server.handleClient() with no request, or one that changes nothing     *)
(* ("/", "/api/time", "/api/display", "/api/status")                      *)
HandleNone ==
  /\ pc = "handle"
  /\ pc' = "tick"
  /\ NoRender("none")
  /\ UNCHANGED <<studyVars, bufVars, timeVars, lastSecond, use24HourFormat, sensorVars,
                 useFahrenheit, styleVars, modeVars, lastModeSwitch, stampVars,
                 currentTimezone, clockVars, envVars, loops, requests>>

(* "/temperature" *)
HandleTemperature ==
  /\ pc = "handle"
  /\ requests < MaxRequests
  /\ pc' = "tick"
  /\ requests' = requests + 1
  /\ useFahrenheit' = ~useFahrenheit
  /\ Render(Layout(currentMode, scr, [Globals EXCEPT !.useFahrenheit = ~useFahrenheit]),
            screen, forceFullRedraw, displayStyle, ledOnColor, ledSurroundColor,
            "temperature")
  /\ UNCHANGED <<studyVars, timeVars, lastSecond, use24HourFormat, sensorVars, styleVars,
                 modeVars, lastModeSwitch, stampVars, currentTimezone, clockVars,
                 envVars, loops>>

(* "/timezone?tz=n" *)
HandleTimezone ==
  /\ pc = "handle"
  /\ requests < MaxRequests
  /\ pc' = "tick"
  /\ requests' = requests + 1
  /\ \E newTimezone \in TzArgs :
       IF newTimezone >= 0 /\ newTimezone < numTimezones
         THEN /\ currentTimezone' = newTimezone
              /\ \E o \in NtpOutcomes :
                   /\ syncNTP(newTimezone, o)
                   /\ Pass(o.wait)
         ELSE UNCHANGED <<currentTimezone, timeVars, envVars, clockVars>>
  /\ NoRender("timezone")
  /\ UNCHANGED <<studyVars, bufVars, lastSecond, use24HourFormat, sensorVars, useFahrenheit,
                 styleVars, modeVars, lastModeSwitch, stampVars, loops>>

(* faulty variant: the handler is entered while loop() is at updateTime()  *)
HandleTimeformat_inTick ==
  /\ pc = "tick"
  /\ requests < MaxRequests
  /\ pc' = "tick"
  /\ requests' = requests + 1
  /\ use24HourFormat' = ~use24HourFormat
  /\ Render(Layout(currentMode, scr, [Globals EXCEPT !.use24HourFormat = ~use24HourFormat]),
            screen, TRUE, displayStyle, ledOnColor, ledSurroundColor, "timeformat")
  /\ UNCHANGED <<studyVars, timeVars, lastSecond, sensorVars, useFahrenheit, styleVars,
                 modeVars, lastModeSwitch, stampVars, currentTimezone, clockVars,
                 envVars, loops>>

(* "/timeformat" *)
HandleTimeformat ==
  /\ pc = "handle"
  /\ requests < MaxRequests
  /\ pc' = "tick"
  /\ requests' = requests + 1
  /\ use24HourFormat' = ~use24HourFormat
  /\ Render(Layout(currentMode, scr, [Globals EXCEPT !.use24HourFormat = ~use24HourFormat]),
            screen, TRUE, displayStyle, ledOnColor, ledSurroundColor, "timeformat")
  /\ UNCHANGED <<studyVars, timeVars, lastSecond, sensorVars, useFahrenheit, styleVars,
                 modeVars, lastModeSwitch, stampVars, currentTimezone, clockVars,
                 envVars, loops>>

(* faulty variant: an index outside the switch selects the last option *)
LedColorOf_last(colorIdx) ==
  IF colorIdx >= 0 /\ colorIdx <= 7 THEN LedColors[colorIdx + 1] ELSE COLOR_ORANGE

(* the switch over ledcolor *)
LedColorOf(colorIdx) ==
  IF colorIdx >= 0 /\ colorIdx <= 7 THEN LedColors[colorIdx + 1] ELSE COLOR_RED

(* the switch over surroundcolor, case 7 apart *)
SurroundColorOf(colorIdx) ==
  IF colorIdx >= 0 /\ colorIdx <= 6 THEN SurroundColors[colorIdx + 1] ELSE COLOR_WHITE

(* faulty variant: in match mode the bezel colour does not follow a new   *)
(* LED colour                                                              *)
StyleColors_noFollow(rq, on, off, sur, match) ==
  LET led == rq[2]
      arg == rq[3]
      on1 == IF led # <<>> THEN LedColorOf(led[1]) ELSE on
  IN  [on |-> on1,
       off |-> IF led # <<>> THEN on1 \div 8 ELSE off,
       sur |-> IF arg = <<>> THEN sur
               ELSE IF arg[1] = 7 THEN on1
               ELSE SurroundColorOf(arg[1]),
       match |-> IF arg = <<>> THEN match ELSE arg[1] = 7]

(* the colour settings the "/style" handler leaves for request rq, from    *)
(* ledOnColor on, ledOffColor off, ledSurroundColor sur and                *)
(* surroundMatchesLED match: the ledcolor block, then the surroundcolor    *)
(* block                                                                   *)
StyleColors(rq, on, off, sur, match) ==
  LET led == rq[2]
      arg == rq[3]
      on1 == IF led # <<>> THEN LedColorOf(led[1]) ELSE on
      sur1 == IF led # <<>> /\ match THEN on1 ELSE sur
  IN  [on |-> on1,
       off |-> IF led # <<>> THEN on1 \div 8 ELSE off,
       sur |-> IF arg = <<>> THEN sur1
               ELSE IF arg[1] = 7 THEN on1
               ELSE SurroundColorOf(arg[1]),
       match |-> IF arg = <<>> THEN match ELSE arg[1] = 7]

(* the "/style" handler serving request rq = <<mode=toggle?, ledcolor,     *)
(* surroundcolor>>, an absent argument being <<>>                          *)
ServeStyle(rq) ==
  /\ pc = "handle"
  /\ requests < MaxRequests
  /\ pc' = "tick"
  /\ requests' = requests + 1
  /\ req' = rq
  /\ displayStyle' = IF rq[1] THEN (IF displayStyle = 0 THEN 1 ELSE 0) ELSE displayStyle
  /\ ledOnColor' = StyleColors(rq, ledOnColor, ledOffColor, ledSurroundColor,
                               surroundMatchesLED).on
  /\ ledOffColor' = StyleColors(rq, ledOnColor, ledOffColor, ledSurroundColor,
                                surroundMatchesLED).off
  /\ ledSurroundColor' = StyleColors(rq, ledOnColor, ledOffColor, ledSurroundColor,
                                     surroundMatchesLED).sur
  /\ surroundMatchesLED' = StyleColors(rq, ledOnColor, ledOffColor, ledSurroundColor,
                                       surroundMatchesLED).match
  /\ IF rq[1] \/ rq[2] # <<>> \/ rq[3] # <<>>
       THEN Render(Layout(currentMode, scr, Globals), fillScreen, TRUE,
                   displayStyle', ledOnColor', ledSurroundColor', "style")
       ELSE /\ UNCHANGED bufVars
            /\ NoRender("style")
  /\ UNCHANGED <<glyph, call, timeVars, lastSecond, use24HourFormat, sensorVars,
                 useFahrenheit, modeVars, lastModeSwitch, stampVars, currentTimezone,
                 clockVars, envVars, loops>>

(* "/style": mode=toggle, ledcolor=n, surroundcolor=n, each optional *)
HandleStyle == \E rq \in StyleRequests : ServeStyle(rq)

(* "/reset": ESP.restart() *)
HandleReset ==
  /\ pc = "handle"
  /\ requests < MaxRequests
  /\ Restart

(* the SNTP answer arrives between two passes of loop() *)
SntpReply ==
  /\ pc = "handle"
  /\ ~synced
  /\ synced' = TRUE
  /\ \E e \in LateStartTimes : bootEpoch' = e
  /\ UNCHANGED <<studyVars, pc, bufVars, timeVars, lastSecond, use24HourFormat, sensorVars,
                 useFahrenheit, styleVars, modeVars, lastModeSwitch, stampVars,
                 currentTimezone, clockVars, loops, requests, op, rendered, drawn,
                 forced>>

(* the rest of loop(): updateTime(), the sensor and NTP timers, delay(100).  *)
(* The hourly syncNTP() re-reads the clock updateTime() has just read; when *)
(* the time is not valid it polls for NtpAttempts * NtpPollDelay ms.        *)
Tick ==
  /\ pc = "tick"
  /\ loops < MaxLoops
  /\ pc' = "handle"
  /\ loops' = loops + 1
  /\ updateTime("tick")
  /\ lastModeSwitch' = IF synced /\ SwitchDue THEN millis ELSE lastModeSwitch
  /\ IF sensorAvailable
        /\ U32Ge(U32Sub(millis, lastSensorUpdate), U32(SENSOR_UPDATE_INTERVAL))
       THEN /\ \E r \in Readings : temperature' = r[1] /\ humidity' = r[2]
            /\ lastSensorUpdate' = millis
       ELSE UNCHANGED <<temperature, humidity, lastSensorUpdate>>
  /\ lastNTPSync' = IF U32Ge(U32Sub(millis, lastNTPSync), U32(NTP_SYNC_INTERVAL))
                      THEN millis ELSE lastNTPSync
  /\ \E d \in LoopTimes :
       Pass(d + (IF ~synced /\ U32Ge(U32Sub(millis, lastNTPSync), U32(NTP_SYNC_INTERVAL))
                   THEN NtpAttempts * NtpPollDelay ELSE 0))
  /\ UNCHANGED <<studyVars, use24HourFormat, sensorAvailable, useFahrenheit, styleVars,
                 currentTimezone, envVars, requests>>

Next ==
  \/ ShowInit \/ TestSensor \/ ConfigPortal \/ WifiFail \/ WifiOk \/ SyncTime
  \/ Ready \/ SetupClear \/ FirstFrame
  \/ HandleNone \/ HandleTemperature \/ HandleTimezone \/ HandleTimeformat
  \/ HandleStyle \/ HandleReset \/ SntpReply \/ Tick

Spec == Init /\ [][Next]_vars

(* ===================== the pure routines on their own ================= *)
(* drawCharWithY and the layout routines are functions of their arguments, *)
(* the framebuffer and the globals.  Two further specifications apply     *)
(* them once to inputs drawn from the sets below.                         *)

(* the zero framebuffer *)
ZeroFrame == [i \in Cells |-> 0]

(* the globals of the frames below: 12:34:56 on the base day, no sensor *)
FrameGlobals ==
  [hours |-> 12, hours24 |-> 12, minutes |-> 34, seconds |-> 56,
   day |-> BaseDate.day, month |-> BaseDate.month, year |-> BaseDate.year,
   use24HourFormat |-> FALSE, sensorAvailable |-> FALSE,
   temperature |-> 0, humidity |-> 0, useFahrenheit |-> FALSE]

(* framebuffers a routine can find: cleared, a large-time frame, a         *)
(* time-and-date frame                                                     *)
Frames ==
  {ZeroFrame, displayTimeLarge(ZeroFrame, FrameGlobals),
   displayTimeAndDate(ZeroFrame, FrameGlobals)}

(* the state outside the framebuffer, the globals of the layouts and pc,   *)
(* as the initialisers leave it                                            *)
InitDisplay ==
  /\ lastScr = ZeroFrame
  /\ firstRun = firstRunInit
  /\ forceFullRedraw = FALSE
  /\ screen = fillScreen
  /\ displayStyle = DEFAULT_DISPLAY_STYLE
  /\ ledOnColor = COLOR_RED
  /\ ledSurroundColor = COLOR_DARK_GRAY
  /\ ledOffColor = 8192
  /\ surroundMatchesLED = FALSE
  /\ op = "boot"
  /\ rendered = FALSE
  /\ drawn = {}
  /\ forced = FALSE

InitTimers ==
  /\ lastSecond = -1
  /\ lastModeSwitch = U32(0)
  /\ lastSensorUpdate = U32(0)
  /\ lastNTPSync = U32(0)
  /\ currentTimezone = 0
  /\ millis = U32(0)
  /\ now = 0
  /\ synced = FALSE
  /\ bootEpoch = 0
  /\ loops = 0
  /\ requests = 0
  /\ switchedAt = -1

(* ---------------------- one call of drawCharWithY --------------------- *)
FontNames == {"digits5x8rn", "digits5x16rn", "digits3x5", "font3x7"}

FontOf(name) ==
  CASE name = "digits5x8rn" -> digits5x8rn
    [] name = "digits5x16rn" -> digits5x16rn
    [] name = "digits3x5" -> digits3x5
    [] name = "font3x7" -> font3x7

(* columns, row bands and characters of the calls: off both edges, below   *)
(* and above the two bands, inside and outside each font's range           *)
GlyphXs == (0 - 7) .. (LINE_WIDTH + 1)
GlyphYs == (0 - 1) .. DISPLAY_ROWS
GlyphChars ==
  {Ch(" ") - 1, Ch(" "), Ch("/"), Ch("0"), Ch("0") + 1, Ch("0") + 9, Ch(":"),
   Ch(":") + 1, Ch("M"), Ch("Y") + 1, Ch("Y") + 2}

GlyphCalls == [x : GlyphXs, yPos : GlyphYs, c : GlyphChars, font : FontNames, w : {-1}]

GlyphInit ==
  /\ pc = "call"
  /\ scr \in Frames
  /\ glyph \in GlyphCalls
  /\ req = NoRequest
  /\ call = NoCall
  /\ hours = 0 /\ hours24 = 0 /\ minutes = 0 /\ seconds = 0
  /\ day = 1 /\ month = 1 /\ year = 2025
  /\ use24HourFormat = FALSE
  /\ sensorAvailable = FALSE /\ temperature = 0 /\ humidity = 0
  /\ useFahrenheit = FALSE
  /\ currentMode = 0
  /\ InitDisplay
  /\ InitTimers

(* glyph.w = drawCharWithY(glyph.x, glyph.yPos, glyph.c, glyph.font) *)
DrawGlyph ==
  /\ pc = "call"
  /\ pc' = "return"
  /\ scr' = drawCharWithY(scr, glyph.x, glyph.yPos, glyph.c, FontOf(glyph.font)).scr
  /\ glyph' = [glyph EXCEPT
                 !.w = drawCharWithY(scr, glyph.x, glyph.yPos, glyph.c,
                                     FontOf(glyph.font)).w]
  /\ op' = "drawCharWithY"
  /\ UNCHANGED <<lastScr, firstRun, forceFullRedraw, screen, timeVars, lastSecond,
                 use24HourFormat, sensorVars, useFahrenheit, styleVars, modeVars,
                 lastModeSwitch, stampVars, currentTimezone, clockVars, envVars,
                 loops, requests, rendered, drawn, forced, req, call>>

GlyphNext == DrawGlyph

GlyphSpec == GlyphInit /\ [][GlyphNext]_vars

(* ---------------------- one run of a layout routine ------------------- *)
(* wall-clock readings of the base day *)
LayoutClocks ==
  {[tm_hour |-> h, tm_min |-> m, tm_sec |-> s, tm_mday |-> BaseDate.day,
    tm_mon |-> BaseDate.month - 1, tm_year |-> BaseDate.year - 1900] :
     h \in {0, 9, 10, 13, 23}, m \in {5, 59}, s \in {0, 1, 58, 59}}

(* sensorAvailable, temperature, humidity: absent, or a reading *)
LayoutSensors == {<<FALSE, 0, 0>>} \cup {<<TRUE, r[1], r[2]>> : r \in Readings}

LayoutInit ==
  /\ pc = "layout"
  /\ scr \in Frames
  /\ glyph = NoGlyph
  /\ req = NoRequest
  /\ call = NoCall
  /\ \E tm \in LayoutClocks :
       /\ hours = (IF tm.tm_hour % 12 = 0 THEN 12 ELSE tm.tm_hour % 12)
       /\ hours24 = tm.tm_hour
       /\ minutes = tm.tm_min
       /\ seconds = tm.tm_sec
       /\ day = tm.tm_mday
       /\ month = tm.tm_mon + 1
       /\ year = tm.tm_year + 1900
  /\ use24HourFormat \in BOOLEAN
  /\ \E r \in LayoutSensors :
       sensorAvailable = r[1] /\ temperature = r[2] /\ humidity = r[3]
  /\ useFahrenheit \in BOOLEAN
  /\ currentMode \in {0, 1, 2}
  /\ InitDisplay
  /\ InitTimers

(* the layout routine of currentMode, as the switch of updateTime calls it *)
RunLayout ==
  /\ pc = "layout"
  /\ pc' = "laidOut"
  /\ scr' = Layout(currentMode, scr, Globals)
  /\ op' = "layout"
  /\ UNCHANGED <<studyVars, lastScr, firstRun, forceFullRedraw, screen, timeVars,
                 lastSecond, use24HourFormat, sensorVars, useFahrenheit, styleVars,
                 modeVars, lastModeSwitch, stampVars, currentTimezone, clockVars,
                 envVars, loops, requests, rendered, drawn, forced>>

LayoutNext == RunLayout

LayoutSpec == LayoutInit /\ [][LayoutNext]_vars

(* ------------------- one request to the "/style" handler -------------- *)
(* the arguments tried: absent, a valid index, "match" (7) and indices     *)
(* outside the switch statements                                           *)
LedArgs == {<<>>, <<0>>, <<5>>, <<7>>, <<8>>, <<-1>>}
SurroundArgs == {<<>>, <<0>>, <<6>>, <<7>>, <<8>>, <<-1>>}
StyleArgs == {<<t, l, s>> : t \in BOOLEAN, l \in LedArgs, s \in SurroundArgs}

(* the colour settings earlier requests can have left: <<ledOnColor,       *)
(* ledSurroundColor, surroundMatchesLED>>                                  *)
StyleSettings ==
  {<<on, sur, FALSE>> : on \in {COLOR_RED, COLOR_GREEN, COLOR_ORANGE},
                        sur \in {COLOR_WHITE, COLOR_DARK_GRAY, COLOR_GREEN}}
    \cup {<<on, on, TRUE>> : on \in {COLOR_RED, COLOR_GREEN, COLOR_ORANGE}}

(* loop() is at server.handleClient() with a frame of the current screen   *)
(* on the display                                                          *)
StyleInit ==
  /\ pc = "handle"
  /\ glyph = NoGlyph
  /\ req = NoRequest
  /\ call = NoCall
  /\ hours = FrameGlobals.hours /\ hours24 = FrameGlobals.hours24
  /\ minutes = FrameGlobals.minutes /\ seconds = FrameGlobals.seconds
  /\ day = FrameGlobals.day /\ month = FrameGlobals.month /\ year = FrameGlobals.year
  /\ use24HourFormat = FALSE
  /\ sensorAvailable = FALSE /\ temperature = 0 /\ humidity = 0
  /\ useFahrenheit = FALSE
  /\ currentMode \in {0, 1, 2}
  /\ displayStyle \in {0, 1}
  /\ \E st \in StyleSettings :
       /\ ledOnColor = st[1]
       /\ ledSurroundColor = st[2]
       /\ surroundMatchesLED = st[3]
       /\ ledOffColor = st[1] \div 8
  /\ scr = Layout(currentMode, ZeroFrame, FrameGlobals)
  /\ lastScr = scr
  /\ firstRun = FALSE
  /\ forceFullRedraw = FALSE
  /\ screen = refreshAll(scr, ZeroFrame, FALSE, TRUE, fillScreen, displayStyle,
                         ledOnColor, ledSurroundColor).screen
  /\ op = "tick"
  /\ rendered = FALSE
  /\ drawn = {}
  /\ forced = FALSE
  /\ InitTimers

StyleNext == \E rq \in StyleArgs : ServeStyle(rq)

StyleSpec == StyleInit /\ [][StyleNext]_vars

(* -------------------------- one call of dimRGB565 --------------------- *)
(* channel values tried: the ends of the 5- and 6-bit fields, powers of    *)
(* two and their neighbours                                                *)
Channels5 == {0, 1, 2, 7, 8, 15, 16, 31}
Channels6 == {0, 1, 7, 8, 31, 32, 63}
DimColors == {r * 2048 + g * 32 + b : r \in Channels5, g \in Channels6, b \in Channels5}

(* factors tried: 7 is the one drawLEDPixel passes *)
DimFactors == {0, 1, 2, 3, OFF_HOUSING_FACTOR, 8, 31, 32, 63, 64, INT_MAX}

DimInit ==
  /\ pc = "call"
  /\ scr = ZeroFrame
  /\ glyph = NoGlyph
  /\ req = NoRequest
  /\ \E c \in DimColors, f \in DimFactors :
       call = [routine |-> "dimRGB565", color |-> c, factor |-> f, result |-> -1]
  /\ hours = 0 /\ hours24 = 0 /\ minutes = 0 /\ seconds = 0
  /\ day = 1 /\ month = 1 /\ year = 2025
  /\ use24HourFormat = FALSE
  /\ sensorAvailable = FALSE /\ temperature = 0 /\ humidity = 0
  /\ useFahrenheit = FALSE
  /\ currentMode = 0
  /\ InitDisplay
  /\ InitTimers

(* uint16_t result = dimRGB565(color, factor) *)
CallDim ==
  /\ pc = "call"
  /\ call.routine = "dimRGB565"
  /\ pc' = "return"
  /\ call' = [call EXCEPT !.result = dimRGB565(call.color, call.factor)]
  /\ op' = "dimRGB565"
  /\ UNCHANGED <<glyph, req, bufVars, timeVars, lastSecond, use24HourFormat,
                 sensorVars, useFahrenheit, styleVars, modeVars, lastModeSwitch,
                 stampVars, currentTimezone, clockVars, envVars, loops, requests,
                 rendered, drawn, forced>>

DimNext == CallDim

DimSpec == DimInit /\ [][DimNext]_vars

(* ------------------------- one call of drawLEDPixel ------------------- *)
(* the panel in rotation 3, as tft.width() and tft.height() report it *)
TftWidth == 320
TftHeight == 240

DISPLAY_WIDTH == LED_SIZE * TOTAL_WIDTH
DISPLAY_HEIGHT == LED_SIZE * TOTAL_HEIGHT + 4

offsetX ==
  IF CDiv(TftWidth - DISPLAY_WIDTH, 2) > 0 THEN CDiv(TftWidth - DISPLAY_WIDTH, 2) ELSE 0
offsetY ==
  IF CDiv(TftHeight - DISPLAY_HEIGHT, 2) > 0 THEN CDiv(TftHeight - DISPLAY_HEIGHT, 2) ELSE 0

(* faulty variant: the second band is moved up instead of down *)
matrixGap_up(y) == IF y >= 8 THEN -4 ELSE 0

(* int matrixGap = (y >= 8) ? 4 : 0 *)
matrixGap(y) == IF y >= 8 THEN 4 ELSE 0

screenX(x) == offsetX + x * LED_SIZE
screenY(y) == offsetY + y * LED_SIZE + matrixGap(y)

(* the physical pixels tft.fillRect(x0, y0, w, h, color) writes *)
fillRect(x0, y0, w, h) ==
  {<<x0 + i, y0 + j>> : i \in 0 .. (w - 1), j \in 0 .. (h - 1)}

(* the physical pixels the drawPixel loops of style 1 write *)
drawPixels(x0, y0, lit) ==
  IF lit
    THEN {<<x0 + px, y0 + py>> : px \in 0 .. 9, py \in 0 .. 9}
    ELSE {<<x0 + d[1], y0 + d[2]>> :
            d \in {e \in (1 .. 8) \X (1 .. 8) :
                     ((e[1] - 1) * 2 - 7) * ((e[1] - 1) * 2 - 7)
                       + ((e[2] - 1) * 2 - 7) * ((e[2] - 1) * 2 - 7) <= 58}}

(* the physical pixels drawLEDPixel(x, y, lit) writes in style *)
drawLEDPixelWrites(x, y, lit, style) ==
  IF x < 0 \/ x >= TOTAL_WIDTH \/ y < 0 \/ y >= TOTAL_HEIGHT THEN {}
  ELSE IF style = 0 THEN fillRect(screenX(x), screenY(y), LED_SIZE, LED_SIZE)
  ELSE fillRect(screenX(x), screenY(y), LED_SIZE, LED_SIZE)
         \cup drawPixels(screenX(x), screenY(y), lit)

(* the calls tried: every logical pixel and the positions around the range *)
PixelXs == (0 - 1) .. TOTAL_WIDTH
PixelYs == (0 - 1) .. TOTAL_HEIGHT

PixelInit ==
  /\ pc = "call"
  /\ scr = ZeroFrame
  /\ glyph = NoGlyph
  /\ req = NoRequest
  /\ \E x \in PixelXs, y \in PixelYs, lit \in BOOLEAN :
       call = [routine |-> "drawLEDPixel", x |-> x, y |-> y, lit |-> lit,
               writes |-> {}]
  /\ hours = 0 /\ hours24 = 0 /\ minutes = 0 /\ seconds = 0
  /\ day = 1 /\ month = 1 /\ year = 2025
  /\ use24HourFormat = FALSE
  /\ sensorAvailable = FALSE /\ temperature = 0 /\ humidity = 0
  /\ useFahrenheit = FALSE
  /\ currentMode = 0
  /\ lastScr = ZeroFrame
  /\ firstRun = firstRunInit
  /\ forceFullRedraw = FALSE
  /\ screen = fillScreen
  /\ displayStyle \in {0, 1}
  /\ ledOnColor = COLOR_RED
  /\ ledSurroundColor = COLOR_DARK_GRAY
  /\ ledOffColor = 8192
  /\ surroundMatchesLED = FALSE
  /\ op = "boot"
  /\ rendered = FALSE
  /\ drawn = {}
  /\ forced = FALSE
  /\ InitTimers

(* drawLEDPixel(x, y, lit) in the current displayStyle *)
CallPixel ==
  /\ pc = "call"
  /\ call.routine = "drawLEDPixel"
  /\ pc' = "return"
  /\ call' = [call EXCEPT
                !.writes = drawLEDPixelWrites(call.x, call.y, call.lit, displayStyle)]
  /\ op' = "drawLEDPixel"
  /\ UNCHANGED <<glyph, req, bufVars, timeVars, lastSecond, use24HourFormat,
                 sensorVars, useFahrenheit, styleVars, modeVars, lastModeSwitch,
                 stampVars, currentTimezone, clockVars, envVars, loops, requests,
                 rendered, drawn, forced>>

PixelNext == CallPixel

PixelSpec == PixelInit /\ [][PixelNext]_vars

(* ---------------------- loop() around the wrap of millis() ------------ *)
(* milliseconds left until millis() wraps, at the last change of the mode *)
WrapDistances == {400, 3000, 5400, 9000}

(* 2^32 - k as an unsigned long, for 0 < k < 65536 *)
BeforeWrap(k) == <<Half - 1, Half - k>>

(* loop() is at server.handleClient(); the pass before it changed the      *)
(* mode at millis() = 2^32 - k, drew the frame of that second and took     *)
(* 5 * LoopDelay ms.  now counts the real milliseconds since that change.  *)
WrapInit ==
  /\ pc = "handle"
  /\ glyph = NoGlyph
  /\ req = NoRequest
  /\ call = NoCall
  /\ synced = TRUE
  /\ bootEpoch \in StartTimes
  /\ currentTimezone = 0
  /\ hours = (IF WallClock(bootEpoch, 0, 0).tm_hour % 12 = 0
                THEN 12 ELSE WallClock(bootEpoch, 0, 0).tm_hour % 12)
  /\ hours24 = WallClock(bootEpoch, 0, 0).tm_hour
  /\ minutes = WallClock(bootEpoch, 0, 0).tm_min
  /\ seconds = WallClock(bootEpoch, 0, 0).tm_sec
  /\ day = WallClock(bootEpoch, 0, 0).tm_mday
  /\ month = WallClock(bootEpoch, 0, 0).tm_mon + 1
  /\ year = WallClock(bootEpoch, 0, 0).tm_year + 1900
  /\ lastSecond = seconds
  /\ use24HourFormat = FALSE
  /\ sensorAvailable = FALSE /\ temperature = 0 /\ humidity = 0
  /\ useFahrenheit = FALSE
  /\ displayStyle = DEFAULT_DISPLAY_STYLE
  /\ ledOnColor = COLOR_RED
  /\ ledSurroundColor = COLOR_DARK_GRAY
  /\ ledOffColor = 8192
  /\ surroundMatchesLED = FALSE
  /\ currentMode \in {0, 1, 2}
  /\ scr = Layout((currentMode + 2) % 3, ZeroFrame, Globals)
  /\ lastScr = scr
  /\ firstRun = FALSE
  /\ forceFullRedraw = FALSE
  /\ screen = refreshAll(scr, ZeroFrame, FALSE, TRUE, fillScreen, displayStyle,
                         ledOnColor, ledSurroundColor).screen
  /\ \E k \in WrapDistances :
       /\ lastModeSwitch = BeforeWrap(k)
       /\ lastSensorUpdate = BeforeWrap(k)
       /\ lastNTPSync = BeforeWrap(k)
       /\ millis = U32Add(BeforeWrap(k), 5 * LoopDelay)
  /\ now = 5 * LoopDelay
  /\ switchedAt = 0
  /\ loops = 0
  /\ requests = 0
  /\ op = "tick"
  /\ rendered = TRUE
  /\ drawn = Cells
  /\ forced = FALSE

WrapNext == HandleNone \/ Tick

WrapSpec == WrapInit /\ [][WrapNext]_vars

(* ============================== claims ================================ *)
(* what a full rendering of framebuffer s leaves on the screen *)
Rendering(s, style, onColor, surroundColor) ==
  [i \in Cells |->
     CellPaint(s[i], PaintNo(TRUE, style, onColor, surroundColor),
               PaintNo(FALSE, style, onColor, surroundColor))]

(* the cells of framebuffer s that differ from snapshot last *)
Differing(s, last) == {i \in Cells : s[i] # last[i]}

(* a step that is one pass of loop() from updateTime() on *)
TickStep == pc = "tick" /\ pc' = "handle"

(* the handlers that change a display setting and redraw *)
SetterOps == {"style", "timeformat", "temperature"}

(* C1: whenever refreshAll has returned, every logical pixel of the screen *)
(* shows the rendering, in the active style and colours, of its bit of scr. *)
C1_ScreenShowsScr ==
  rendered => screen = Rendering(scr, displayStyle, ledOnColor, ledSurroundColor)

(* C2: whenever refreshAll has returned, from a tick, a handler or         *)
(* showMessage, the snapshot lastScr equals scr in all 64 cells.           *)
C2_SnapshotEqualsScr == rendered => lastScr = scr

C2_Witness ==
  /\ rendered /\ op = "tick"
  /\ drawn # {} /\ drawn # Cells
  /\ lastScr = scr

(* C3 as stated: every pass with no forced redraw pending draws exactly   *)
(* the cells whose byte differs from the snapshot.                         *)
C3_EveryUnforcedPassIsDifferential ==
  [][rendered' /\ ~forced' => drawn' = Differing(scr', lastScr)]_vars

(* C3, amended: a pass with no forced redraw pending, other than the first *)
(* pass after start, draws exactly the cells whose byte differs from the   *)
(* snapshot, 8 pixels each, and leaves every other cell of the screen and  *)
(* of the snapshot as it was; with nothing differing it writes nothing.    *)
C3_LaterUnforcedPassIsDifferential ==
  [][rendered' /\ ~forced' /\ ~firstRun =>
       /\ drawn' = Differing(scr', lastScr)
       /\ \A i \in Cells :
            IF i \in drawn'
              THEN screen'[i] = Rendering(scr', displayStyle, ledOnColor,
                                          ledSurroundColor)[i]
              ELSE screen'[i] = screen[i] /\ lastScr'[i] = lastScr[i]
       /\ (scr' = lastScr => screen' = screen /\ lastScr' = lastScr)]_vars

C3_Witness ==
  /\ rendered /\ ~forced /\ op = "temperature"
  /\ drawn = {}

(* C4: every handler that changes display state (/style, /timeformat,     *)
(* /temperature) sets forceFullRedraw, so its refreshAll redraws all 64    *)
(* cells.                                                                  *)
C4_SettersForceFullRedraw ==
  rendered /\ op \in SetterOps => forced /\ drawn = Cells

(* C5: when a handler that changed a setting returns, scr holds the layout *)
(* of the current mode under the new setting, and the snapshot and the     *)
(* screen reflect it.                                                      *)
C5_HandlerShowsSetting ==
  rendered /\ op \in SetterOps =>
    /\ scr = Layout(currentMode, scr, Globals)
    /\ lastScr = scr
    /\ screen = Rendering(scr, displayStyle, ledOnColor, ledSurroundColor)

(* C6: a refreshAll entered with forceFullRedraw set draws all 64 cells    *)
(* whatever the snapshot holds and returns with the flag cleared; the pass *)
(* of the tick that follows it is differential again.                      *)
C6_ForcedPassIsFullAndOneShot ==
  [][/\ rendered' /\ forced' =>
          /\ drawn' = Cells
          /\ ~forceFullRedraw'
          /\ screen' = Rendering(scr', displayStyle', ledOnColor', ledSurroundColor')
     /\ rendered /\ forced /\ rendered' /\ op' = "tick" =>
          /\ ~forced'
          /\ drawn' = Differing(scr', lastScr)]_vars

C6_Witness ==
  /\ rendered /\ forced /\ op = "timeformat"
  /\ drawn = Cells /\ ~forceFullRedraw
  /\ \E i \in Cells : scr[i] = 0

(* C7: the first refreshAll after process start (the one of                *)
(* showMessage("INIT")) draws all 64 cells, the cells whose byte equals    *)
(* the snapshot's initial value 0 included.                                *)
C7_FirstPassDrawsAll ==
  op = "INIT" =>
    /\ rendered
    /\ drawn = Cells
    /\ screen = Rendering(scr, displayStyle, ledOnColor, ledSurroundColor)

C7_Witness ==
  /\ op = "INIT" /\ drawn = Cells
  /\ \E i \in Cells : scr[i] = 0 /\ screen[i] # fillScreen[i]

(* C8 as stated: in every tick with more than MODE_SWITCH_INTERVAL ms      *)
(* elapsed since lastModeSwitch, currentMode advances to (currentMode+1)%3. *)
C8_EveryDueTickSwitches ==
  [][TickStep /\ U32Gt(U32Sub(millis, lastModeSwitch), U32(MODE_SWITCH_INTERVAL))
       => currentMode' = (currentMode + 1) % 3]_vars

(* C8, amended: in every tick in which the time is valid (time(nullptr) >= *)
(* 24*3600) and more than MODE_SWITCH_INTERVAL ms have elapsed since       *)
(* lastModeSwitch, currentMode advances to (currentMode+1)%3 and           *)
(* lastModeSwitch restarts; a tick without valid time leaves the mode.     *)
C8_DueTickWithTimeSwitches ==
  [][/\ TickStep /\ synced
          /\ U32Gt(U32Sub(millis, lastModeSwitch), U32(MODE_SWITCH_INTERVAL))
          => currentMode' = (currentMode + 1) % 3 /\ lastModeSwitch' = millis
     /\ TickStep /\ ~synced => currentMode' = currentMode]_vars

C8_Witness ==
  /\ op = "tick" /\ synced
  /\ currentMode = 0 /\ switchedAt >= 0

(* C9: currentMode is always 0, 1 or 2; it changes only in updateTime,     *)
(* only from m to (m+1)%3, and a change comes more than                    *)
(* MODE_SWITCH_INTERVAL ms after the change before it; no handler changes  *)
(* it (a restart of the process apart).                                    *)
C9_ModeStepsByOne ==
  /\ [](currentMode \in {0, 1, 2})
  /\ [][currentMode' # currentMode /\ pc' # "boot" =>
          /\ op' \in {"tick", "firstFrame"}
          /\ currentMode' = (currentMode + 1) % 3
          /\ switchedAt' = now
          /\ switchedAt >= 0 => now - switchedAt > MODE_SWITCH_INTERVAL]_vars

C9_Witness ==
  /\ op = "tick" /\ currentMode = 2
  /\ switchedAt > MODE_SWITCH_INTERVAL
  /\ requests > 0

(* the second of the wall clock a tick would read *)
WallSecond == WallClock(bootEpoch, currentTimezone, now).tm_sec

(* C10 as stated: every tick in which the wall-clock second differs from   *)
(* lastSecond lays out the mode current on entry and renders it.           *)
C10_EverySecondChangeDrawsCurrentMode ==
  [][TickStep /\ WallSecond # lastSecond =>
       /\ rendered'
       /\ scr' = Layout(currentMode, scr,
                        GlobalsAt(WallClock(bootEpoch, currentTimezone, now)))]_vars

(* C10, amended: every tick in which the time is valid and the wall-clock  *)
(* second differs from lastSecond lays out the mode current on entry and   *)
(* renders it, whether or not the tick then switches the mode.             *)
C10_SecondChangeWithTimeDrawsCurrentMode ==
  [][TickStep /\ synced /\ WallSecond # lastSecond =>
       /\ rendered'
       /\ scr' = Layout(currentMode, scr,
                        GlobalsAt(WallClock(bootEpoch, currentTimezone, now)))
       /\ lastScr' = scr']_vars

C10_Witness ==
  /\ op = "tick" /\ rendered
  /\ switchedAt >= 0
  /\ scr = Layout((currentMode + 2) % 3, scr, Globals)
  /\ scr # Layout(currentMode, scr, Globals)

(* ------------------------- drawCharWithY alone ------------------------ *)
(* a step of GlyphSpec: the call of drawCharWithY returns *)
GlyphStep == pc = "call" /\ pc' = "return"

(* character c is inside the [first, last] range of font *)
InRange(c, font) == c >= pgm_read_byte(font, 2) /\ c <= pgm_read_byte(font, 3)

(* bytes per glyph column of font: its height in row bands *)
BandsOf(font) == (pgm_read_byte(font, 1) + 7) \div 8

(* the byte cell idx is to hold after the glyph of c was drawn at column x *)
(* of band yPos over framebuffer s: glyph column i of band j at column     *)
(* x + i of band yPos + j, a zero column at x + width, the old byte        *)
(* elsewhere                                                               *)
GlyphCell(s, x, yPos, c, font, idx) ==
  LET col == idx % LINE_WIDTH
      j == (idx \div LINE_WIDTH) - yPos
      i == col - x
      rec == GlyphRecord(c, font)
      w == pgm_read_byte(font, rec)
  IN  IF j >= 0 /\ j < BandsOf(font) /\ i >= 0 /\ i < w
        THEN pgm_read_byte(font, rec + 1 + BandsOf(font) * i + j)
      ELSE IF j >= 0 /\ j < BandsOf(font) /\ i = w
        THEN 0
      ELSE s[idx]

(* C11: for every column x, row band yPos, font and in-range character,    *)
(* drawCharWithY leaves in each of the 64 cells the glyph column or the    *)
(* zero column that falls on it and the old byte in every other cell (no   *)
(* column wraps into the other band, the array keeps its 64 cells), and    *)
(* returns the full glyph width.                                           *)
C11_GlyphWritesInsideOnly ==
  [][GlyphStep /\ InRange(glyph.c, FontOf(glyph.font)) =>
       /\ DOMAIN scr' = Cells
       /\ \A idx \in Cells :
            scr'[idx] = GlyphCell(scr, glyph.x, glyph.yPos, glyph.c,
                                  FontOf(glyph.font), idx)
       /\ glyph'.w = pgm_read_byte(FontOf(glyph.font),
                                   GlyphRecord(glyph.c, FontOf(glyph.font)))]_vars

C11_Witness ==
  /\ pc = "return" /\ glyph.w > 1
  /\ glyph.x < 0 /\ glyph.x + glyph.w > 0
  /\ glyph.yPos = 0
  /\ scr[0] # 0
  /\ scr[0] = pgm_read_byte(FontOf(glyph.font),
                            GlyphRecord(glyph.c, FontOf(glyph.font)) + 1
                              + BandsOf(FontOf(glyph.font)) * (0 - glyph.x))

(* the framebuffer and cursor after character c and then a "0" went        *)
(* through a glyph loop that leaves one column between characters          *)
AfterSkipped(s, x, yPos, font) ==
  [scr |-> drawCharWithY(s, x + 1, yPos, Ch("0"), font).scr,
   x |-> x + 1 + drawCharWithY(s, x + 1, yPos, Ch("0"), font).w]

(* C12: for a character outside the font's [first, last] range             *)
(* drawCharWithY returns 0 and leaves the framebuffer as it was, and the    *)
(* glyph loops of the layout routines go on to draw the character that     *)
(* follows it.                                                             *)
C12_OutOfRangeCharIsSkipped ==
  [][GlyphStep /\ ~InRange(glyph.c, FontOf(glyph.font)) =>
       /\ glyph'.w = 0
       /\ scr' = scr
       /\ DrawTight([scr |-> scr, x |-> glyph.x], <<glyph.c, Ch("0")>>, 1,
                    glyph.yPos, FontOf(glyph.font))
            = AfterSkipped(scr, glyph.x, glyph.yPos, FontOf(glyph.font))
       /\ DrawSpaced([scr |-> scr, x |-> glyph.x], <<glyph.c, Ch("0")>>, 1,
                     glyph.yPos, FontOf(glyph.font)).scr
            = AfterSkipped(scr, glyph.x, glyph.yPos, FontOf(glyph.font)).scr
       /\ (glyph.x + 1 < LINE_WIDTH - 3 =>
             DrawFit([scr |-> scr, x |-> glyph.x], <<glyph.c, Ch("0")>>, 1,
                     glyph.yPos, FontOf(glyph.font), LINE_WIDTH)
               = AfterSkipped(scr, glyph.x, glyph.yPos, FontOf(glyph.font)))]_vars

C12_Witness ==
  /\ pc = "return" /\ glyph.w = 0
  /\ ~InRange(glyph.c, FontOf(glyph.font))
  /\ glyph.x >= 0 /\ glyph.x + 1 < LINE_WIDTH - 3
  /\ glyph.yPos = 1
  /\ scr # ZeroFrame
  /\ AfterSkipped(scr, glyph.x, glyph.yPos, FontOf(glyph.font)).scr # scr

(* C13: charWidth(c, font) is the advance drawCharWithY returns for c, so   *)
(* stringWidth of a text is the sum of its characters' advances plus one   *)
(* column per character, less the trailing one (here: of c twice).         *)
C13_StringWidthSumsAdvances ==
  pc = "return" =>
    /\ charWidth(glyph.c, FontOf(glyph.font)) = {glyph.w}
    /\ stringWidth(<<glyph.c, glyph.c>>, FontOf(glyph.font)) = {2 * glyph.w + 1}

(* ----------------------- the layout routines alone -------------------- *)
(* a step of LayoutSpec: the layout routine of currentMode runs *)
LayoutStep == pc = "layout" /\ pc' = "laidOut"

(* C14: each layout routine leaves the same 64 bytes whatever the          *)
(* framebuffer held before, and the same 64 bytes when it runs again on    *)
(* its own result with the same globals.                                   *)
C14_LayoutIgnoresOldFrame ==
  [][LayoutStep =>
       /\ \A f \in Frames : Layout(currentMode, f, Globals) = scr'
       /\ Layout(currentMode, scr', Globals) = scr']_vars

C14_Witness ==
  /\ pc = "laidOut" /\ op = "layout"
  /\ currentMode = 0 /\ sensorAvailable
  /\ scr \notin Frames
  /\ \E i \in Cells : scr[i] = 0 /\ \E f \in Frames : f[i] # 0

(* ------------------------- hours, seconds, colon ---------------------- *)
(* the hour of the 12-hour clock for hour h of the 24-hour clock *)
Hour12(h) == ((h + 11) % 12) + 1

(* the operations that run a layout routine and render it *)
LayoutOps == SetterOps \cup {"tick", "firstFrame"}

(* C15: every frame a layout routine has drawn, from a tick or from a      *)
(* handler, shows the hour ((hours24 + 11) mod 12) + 1 in 12-hour format   *)
(* and hours24 in 24-hour format.                                          *)
C15_HourDrawnFromHours24 ==
  rendered /\ op \in LayoutOps =>
    \E mode \in {0, 1, 2} :
      scr = Layout(mode, scr, [Globals EXCEPT !.hours = Hour12(hours24)])

(* the cursor of the Time+Environment screen after the minutes: the column *)
(* before the one where its seconds start                                  *)
TempMinutesEnd(g) ==
  MinutesStep(Colon8(HoursStep(StartAt(ZeroFrame, 0), g, digits5x8rn), g), g,
              digits5x8rn).x

(* the globals two seconds later within the minute: the same colon, other  *)
(* seconds digits                                                          *)
TwoSecondsOn(g) == [g EXCEPT !.seconds = (g.seconds + 2) % 60]

(* the globals ten seconds later within the minute *)
TenSecondsOn(g) == [g EXCEPT !.seconds = (g.seconds + 10) % 60]

(* C16: the Time+Environment screen leaves out the seconds digits exactly  *)
(* when 24-hour format is active and hours24 >= 10: then the frame does not *)
(* depend on the seconds digits and band 0 is empty behind the minutes;    *)
(* otherwise the first seconds digit stands one column behind the minutes. *)
(* The other two screens draw seconds digits in both formats at every     *)
(* hour: their frames depend on the tens digit of the seconds.             *)
C16_SecondsOmittedOnlyIn24hFrom10 ==
  [][LayoutStep =>
       IF currentMode = 0
         THEN IF use24HourFormat /\ hours24 >= 10
                THEN /\ scr' = Layout(0, scr, TwoSecondsOn(Globals))
                     /\ \A col \in TempMinutesEnd(Globals) .. (LINE_WIDTH - 1) :
                          scr'[col] = 0
                ELSE /\ scr' # Layout(0, scr, TwoSecondsOn(Globals))
                     /\ \A idx \in Cells :
                          idx > TempMinutesEnd(Globals) /\ idx <= TempMinutesEnd(Globals) + 3
                            => scr'[idx] = GlyphCell(ZeroFrame, TempMinutesEnd(Globals) + 1,
                                                    0, Dec2(seconds)[1], digits3x5, idx)
         ELSE scr' # Layout(currentMode, scr, TenSecondsOn(Globals))]_vars

C16_Witness ==
  /\ pc = "laidOut" /\ currentMode = 0
  /\ use24HourFormat /\ hours24 = 23 /\ seconds = 59
  /\ scr[0] # 0
  /\ \A col \in TempMinutesEnd(Globals) .. (LINE_WIDTH - 1) : scr[col] = 0

(* the font of the time digits of screen mode *)
TimeFont(mode) == IF mode = 1 THEN digits5x16rn ELSE digits5x8rn

(* the column behind the hour digits of screen mode, where its separator   *)
(* starts                                                                  *)
ColonColumn(mode, g) ==
  HoursStep(StartAt(ZeroFrame, IF mode = 1 /\ displayHours(g) <= 9 THEN 3 ELSE 0),
            g, TimeFont(mode)).x

(* the cells of frame f in column col that the time digits of mode cover *)
ColumnOf(f, mode, col) ==
  IF mode = 1 THEN <<f[col], f[LINE_WIDTH + col]>> ELSE <<f[col]>>

(* column col as the colon glyph of mode leaves it *)
ColonGlyph(mode, col) ==
  ColumnOf([idx \in Cells |->
              GlyphCell(ZeroFrame, col, 0, Ch(":"), TimeFont(mode), idx)],
           mode, col)

(* the globals one second later within the minute *)
NextSecond(g) == [g EXCEPT !.seconds = (g.seconds + 1) % 60]

(* C17: in each of the three layouts the separator column holds the colon  *)
(* glyph if the second is even and is blank if it is odd, so the colon is  *)
(* in the frame of exactly one of two consecutive seconds.                 *)
C17_ColonIffEvenSecond ==
  [][LayoutStep =>
       /\ ColonGlyph(currentMode, ColonColumn(currentMode, Globals))
            # ColumnOf(ZeroFrame, currentMode, 0)
       /\ IF seconds % 2 = 0
            THEN ColumnOf(scr', currentMode, ColonColumn(currentMode, Globals))
                   = ColonGlyph(currentMode, ColonColumn(currentMode, Globals))
            ELSE ColumnOf(scr', currentMode, ColonColumn(currentMode, Globals))
                   = ColumnOf(ZeroFrame, currentMode, 0)
       /\ ColumnOf(Layout(currentMode, scr, NextSecond(Globals)), currentMode,
                   ColonColumn(currentMode, Globals))
            # ColumnOf(scr', currentMode, ColonColumn(currentMode, Globals))]_vars

C17_Witness ==
  /\ pc = "laidOut" /\ currentMode = 1
  /\ seconds = 1 /\ hours24 = 9
  /\ ColumnOf(scr, 1, ColonColumn(1, Globals)) = <<0, 0>>
  /\ ColumnOf(scr, 1, ColonColumn(1, Globals) + 1) # <<0, 0>>

(* the cursor behind the hour digits of screen mode *)
HoursEnd(mode, g) ==
  HoursStep(StartAt(ZeroFrame, IF mode = 1 /\ displayHours(g) <= 9 THEN 3 ELSE 0),
            g, TimeFont(mode))

(* the separator of screen mode: colon or reserved blank *)
Separator(mode, st, g) == IF mode = 1 THEN Colon16(st, g) ELSE Colon8(st, g)

(* the columns where the minute digits of screen mode start and end *)
MinutesStart(mode, g) == Separator(mode, HoursEnd(mode, g), g).x
MinutesEnd(mode, g) ==
  MinutesStep(Separator(mode, HoursEnd(mode, g), g), g, TimeFont(mode)).x

Band(f, yPos) == [col \in 0 .. (LINE_WIDTH - 1) |-> f[LINE_WIDTH * yPos + col]]

(* the globals with other sensor values and another unit flag *)
WithReading(g, t, h, fahrenheit) ==
  [g EXCEPT !.temperature = t, !.humidity = h, !.useFahrenheit = fahrenheit]

(* the text of the bottom row with every glyph drawn, one column apart,    *)
(* cut off only at the right edge of the row                               *)
EnvTextDrawn(g) == DrawTight(StartAt(ZeroFrame, 0), EnvText(g), 1, 1, font3x7).scr

(* C19: without a sensor reading the time-and-environment screen shows     *)
(* every glyph of the text NO SENSOR on row band 1, and the frame is the   *)
(* same for every temperature, humidity and temperature unit.              *)
C19_NoSensorTextDrawn ==
  [][LayoutStep /\ currentMode = 0 /\ ~sensorAvailable =>
       /\ Band(scr', 1) = Band(EnvTextDrawn(Globals), 1)
       /\ \A r \in Readings, f \in BOOLEAN :
            displayTimeAndTemp(scr, WithReading(Globals, r[1], r[2], f)) = scr']_vars

(* a "/style" request that toggles to style 0 and redraws *)
ToFlatStep ==
  /\ pc = "handle" /\ op' = "style" /\ rendered'
  /\ displayStyle = 1 /\ displayStyle' = 0

(* a rectangle of LED_SIZE x LED_SIZE dots of one colour *)
Square(color) == [q \in TileDots |-> color]

(* C20: in style 0 drawLEDPixel leaves a square of the on-colour for a lit *)
(* pixel and a square of the background colour for an unlit one, whatever  *)
(* the bezel colour; after a toggle to style 0 and its redraw every LED    *)
(* rectangle of the screen is such a square for its bit of scr, and the    *)
(* screen is the same for every value of ledSurroundColor.                 *)
C20_FlatBlockIgnoresBezel ==
  [][ToFlatStep =>
       /\ \A n \in 1 .. Len(PaletteSeq) :
            /\ drawLEDPixel(TRUE, 0, ledOnColor', PaletteSeq[n]) = Square(ledOnColor')
            /\ drawLEDPixel(FALSE, 0, ledOnColor', PaletteSeq[n]) = Square(BG_COLOR)
            /\ Rendering(scr', 0, ledOnColor', PaletteSeq[n]) = screen'
       /\ \A i \in Cells, bitPos \in BitPositions :
            TileTable[screen'[i][bitPos]]
              = Square(IF BitSet(scr'[i], bitPos) THEN ledOnColor' ELSE BG_COLOR)]_vars

C20_Witness ==
  /\ op = "style" /\ rendered /\ displayStyle = 0
  /\ ledSurroundColor # ledOnColor /\ ledSurroundColor # BG_COLOR
  /\ \E i \in Cells : scr[i] # 0 /\ scr[i] # 255
                        /\ TileTable[screen[i][0]] # TileTable[screen[i][7]]

(* a step in which the "/style" handler serves a request *)
StyleStep == pc = "handle" /\ op' = "style"

(* argument arg of a request is present and outside the indices 0..7 *)
OutOfOptions(arg) == arg # <<>> /\ (arg[1] < 0 \/ arg[1] > 7)

(* C21: a "/style" request whose ledcolor is outside 0..7 leaves the       *)
(* on-colour at option 0, red, and one whose surroundcolor is outside 0..7 *)
(* leaves the bezel colour at option 0, white, with match mode off; the    *)
(* handler completes and redraws all 64 cells of the current screen in the *)
(* resulting colours, as it does for a valid index.                        *)
C21_ColourIndexFallsBack ==
  [][StyleStep =>
       /\ OutOfOptions(req'[2]) =>
            /\ ledOnColor' = LedColors[1] /\ ledOnColor' = COLOR_RED
            /\ ledOffColor' = COLOR_RED \div 8
       /\ OutOfOptions(req'[3]) =>
            /\ ledSurroundColor' = SurroundColors[1] /\ ledSurroundColor' = COLOR_WHITE
            /\ ~surroundMatchesLED'
       /\ OutOfOptions(req'[2]) \/ OutOfOptions(req'[3]) =>
            /\ pc' = "tick"
            /\ rendered' /\ forced' /\ drawn' = Cells
            /\ scr' = Layout(currentMode, scr, Globals)
            /\ lastScr' = scr'
            /\ screen' = Rendering(scr', displayStyle', ledOnColor', ledSurroundColor')]_vars

C21_Witness ==
  /\ op = "style" /\ pc = "tick"
  /\ req = <<FALSE, <<8>>, <<-1>>>>
  /\ ledOnColor = COLOR_RED /\ ledSurroundColor = COLOR_WHITE
  /\ ~surroundMatchesLED
  /\ rendered /\ drawn = Cells

(* the red, green and blue fields of an RGB565 colour *)
Red(color) == (color \div 2048) % 32
Green(color) == (color \div 32) % 64
Blue(color) == color % 32

(* the integer quotient channel / (factor + 1) of a channel below 64; it is *)
(* 0 from factor 63 on                                                     *)
Quotient(channel, factor) == IF factor >= 63 THEN 0 ELSE channel \div (factor + 1)

(* C22: dimRGB565(color, factor) is a 16-bit colour whose red, green and   *)
(* blue fields are the integer quotients of the fields of color by         *)
(* factor + 1: no field is negative or larger than it was, none carries    *)
(* into its neighbour, and a field that was zero stays zero.               *)
C22_DimDividesEachChannel ==
  pc = "return" /\ call.routine = "dimRGB565" =>
    /\ call.result \in 0 .. 65535
    /\ Red(call.result) = Quotient(Red(call.color), call.factor)
    /\ Green(call.result) = Quotient(Green(call.color), call.factor)
    /\ Blue(call.result) = Quotient(Blue(call.color), call.factor)
    /\ Red(call.result) <= Red(call.color)
    /\ Green(call.result) <= Green(call.color)
    /\ Blue(call.result) <= Blue(call.color)
    /\ Red(call.color) = 0 => Red(call.result) = 0
    /\ Green(call.color) = 0 => Green(call.result) = 0
    /\ Blue(call.color) = 0 => Blue(call.result) = 0

C22_Witness ==
  /\ pc = "return" /\ call.routine = "dimRGB565"
  /\ call.factor = OFF_HOUSING_FACTOR
  /\ Red(call.color) = 31 /\ Green(call.color) = 7 /\ Blue(call.color) = 0
  /\ Red(call.result) = 3 /\ Green(call.result) = 0 /\ Blue(call.result) = 0

(* the settings the handlers write and the layout and render passes read *)
DisplaySettings ==
  <<displayStyle, ledOnColor, ledSurroundColor, ledOffColor, surroundMatchesLED,
    use24HourFormat, useFahrenheit>>

(* the operations that run inside server.handleClient() and return to      *)
(* loop(); "/reset" ends in the restart instead                            *)
HandlerOps == {"none", "temperature", "timezone", "timeformat", "style"}

(* C23: the display settings change only in a step of a handler, taken     *)
(* from server.handleClient() to completion; the updateTime() step of      *)
(* loop() changes none of them; and each layout with its refreshAll() is   *)
(* one step: the frame is the layout of the current mode for one value of  *)
(* the globals, the snapshot equals it, and every cell redrawn shows it in *)
(* one value of the style and colours.                                     *)
C23_HandlersSerializedWithRender ==
  [][/\ DisplaySettings' # DisplaySettings =>
          /\ pc = "handle"
          /\ \/ pc' = "tick" /\ op' \in HandlerOps
             \/ pc' = "boot" /\ op' = "boot"
     /\ op' \in HandlerOps /\ pc' # pc => pc = "handle" /\ pc' = "tick"
     /\ pc = "tick" /\ pc' # pc =>
          /\ op' = "tick" /\ pc' = "handle"
          /\ DisplaySettings' = DisplaySettings
     /\ pc \in {"tick", "handle"} /\ rendered' /\ pc' # pc =>
          /\ scr' = Layout(currentMode, scr, Globals')
          /\ lastScr' = scr'
          /\ \A i \in drawn' :
               screen'[i] = Rendering(scr', displayStyle', ledOnColor',
                                      ledSurroundColor')[i]]_vars

C23_Witness ==
  /\ op = "timeformat" /\ pc = "tick"
  /\ rendered /\ drawn = Cells
  /\ loops >= 1 /\ use24HourFormat
  /\ lastScr = scr

(* the answer of "/api/display": the framebuffer and the display settings *)
ApiDisplay ==
  [buffer |-> scr, style |-> displayStyle, ledColor |-> ledOnColor,
   surroundColor |-> ledSurroundColor]

(* C24: serving "/api/display" changes neither framebuffer, snapshot,      *)
(* screen nor display settings, and whenever loop() is at                  *)
(* server.handleClient() the buffer it returns equals the snapshot of the  *)
(* last rendering.                                                         *)
C24_ApiDisplayShowsRenderedFrame ==
  [][pc = "handle" /\ op' = "none" =>
       /\ UNCHANGED <<bufVars, DisplaySettings>>
       /\ ApiDisplay.buffer = lastScr
       /\ ApiDisplay' = ApiDisplay]_vars

(* the position of setup() before each status message *)
MessageAt(name) ==
  CASE name = "INIT" -> {"boot"}
    [] name = "WIFI OK" -> {"wifi", "portal"}
    [] name = "TIME OK" -> {"ntp"}
    [] name = "READY" -> {"server"}

(* C25: setup() shows INIT, WIFI OK, TIME OK and READY in this order, each *)
(* at its own position; WIFI OK follows a successful autoConnect, and      *)
(* TIME OK is shown only when the syncNTP() before it obtained the time.   *)
C25_StatusMessagesTellTheTruth ==
  [][\A name \in {"INIT", "WIFI OK", "TIME OK", "READY"} :
       op' = name /\ pc' # pc =>
         /\ pc \in MessageAt(name)
         /\ rendered'
         /\ name = "TIME OK" => synced']_vars

(* the step of setup() that draws the first time screen: updateTime() and  *)
(* the four timer assignments                                              *)
FirstFrameStep == pc = "frame" /\ pc' = "handle"

(* C26: the updateTime() call of setup() draws the time-and-environment    *)
(* screen if it draws, and setup() ends with currentMode still 0, whether  *)
(* or not the time is valid.                                               *)
C26_SetupKeepsFirstScreen ==
  [][FirstFrameStep =>
       /\ currentMode = 0
       /\ rendered' => scr' = displayTimeAndTemp(scr, Globals')
       /\ currentMode' = 0]_vars

(* updateTime() would return at once: the time is not valid *)
TimeInvalid == ~synced

(* updateTime() would find the second it drew last *)
SameSecond ==
  synced /\ WallClock(bootEpoch, currentTimezone, now).tm_sec = lastSecond

(* C27: a pass of loop() in which the time is not valid, or in which the   *)
(* second read equals lastSecond, runs neither a layout nor refreshAll():  *)
(* framebuffer, snapshot, the flags of refreshAll and the screen are       *)
(* unchanged.                                                              *)
C27_NoNewSecondNoRender ==
  [][TickStep /\ (TimeInvalid \/ SameSecond) =>
       /\ ~rendered' /\ drawn' = {}
       /\ UNCHANGED <<scr, lastScr, firstRun, forceFullRedraw, screen>>]_vars

C27_Witness ==
  /\ op = "tick" /\ pc = "handle"
  /\ synced /\ ~rendered
  /\ lastSecond = seconds
  /\ lastScr = scr /\ scr # [i \in Cells |-> 0]

(* C28: a "/style" request served in a state where match mode implies      *)
(* bezel colour = on-colour leaves such a state; a surroundcolor argument  *)
(* other than 7 sets its colour and turns match mode off, the argument 7   *)
(* turns it on; and with match mode off a request with a ledcolor and no   *)
(* surroundcolor argument leaves the bezel colour and match mode as they   *)
(* were.                                                                   *)
C28_MatchModeKeepsBezelEqual ==
  [][StyleStep /\ (surroundMatchesLED => ledSurroundColor = ledOnColor) =>
       /\ surroundMatchesLED' => ledSurroundColor' = ledOnColor'
       /\ req'[3] # <<>> /\ req'[3][1] # 7 =>
            /\ ~surroundMatchesLED'
            /\ ledSurroundColor' = SurroundColorOf(req'[3][1])
       /\ req'[3] = <<7>> => surroundMatchesLED'
       /\ req'[3] = <<>> => surroundMatchesLED' = surroundMatchesLED
       /\ ~surroundMatchesLED /\ req'[2] # <<>> /\ req'[3] = <<>> =>
            ledSurroundColor' = ledSurroundColor]_vars

C28_Witness ==
  /\ op = "style" /\ pc = "tick"
  /\ req = <<FALSE, <<5>>, <<>>>>
  /\ surroundMatchesLED
  /\ ledOnColor = COLOR_MAGENTA /\ ledSurroundColor = COLOR_MAGENTA

(* (x, y) is a logical pixel *)
OnMatrix(x, y) == x >= 0 /\ x < TOTAL_WIDTH /\ y >= 0 /\ y < TOTAL_HEIGHT

(* the rectangles of logical pixels (x, y) and (x2, y2) share no pixel *)
RectsApart(x, y, x2, y2) ==
  \/ screenX(x) + LED_SIZE <= screenX(x2)
  \/ screenX(x2) + LED_SIZE <= screenX(x)
  \/ screenY(y) + LED_SIZE <= screenY(y2)
  \/ screenY(y2) + LED_SIZE <= screenY(y)

(* C29: drawLEDPixel(x, y, lit) for a logical pixel writes, in both styles, *)
(* only inside the LED_SIZE x LED_SIZE rectangle at column x * LED_SIZE    *)
(* and row y * LED_SIZE, plus 4 for y >= 8, of the matrix area; the        *)
(* rectangle lies inside the DISPLAY_WIDTH x DISPLAY_HEIGHT area and on    *)
(* the panel and shares no pixel with the rectangle of another logical     *)
(* pixel; a call outside the range writes nothing.                         *)
C29_LedRectanglesDisjoint ==
  pc = "return" /\ call.routine = "drawLEDPixel" =>
    IF OnMatrix(call.x, call.y)
      THEN /\ call.writes # {}
           /\ \A p \in call.writes :
                /\ p[1] - offsetX \in (call.x * LED_SIZE) .. (call.x * LED_SIZE + LED_SIZE - 1)
                /\ p[2] - offsetY - (IF call.y >= 8 THEN 4 ELSE 0)
                     \in (call.y * LED_SIZE) .. (call.y * LED_SIZE + LED_SIZE - 1)
                /\ p[1] - offsetX \in 0 .. (DISPLAY_WIDTH - 1)
                /\ p[2] - offsetY \in 0 .. (DISPLAY_HEIGHT - 1)
                /\ p[1] \in 0 .. (TftWidth - 1)
                /\ p[2] \in 0 .. (TftHeight - 1)
           /\ \A x2 \in 0 .. (TOTAL_WIDTH - 1), y2 \in 0 .. (TOTAL_HEIGHT - 1) :
                <<x2, y2>> # <<call.x, call.y>> =>
                  /\ RectsApart(call.x, call.y, x2, y2)
                  /\ call.writes
                       \cap fillRect(screenX(x2), screenY(y2), LED_SIZE, LED_SIZE) = {}
      ELSE call.writes = {}

C29_Witness ==
  /\ pc = "return" /\ call.routine = "drawLEDPixel"
  /\ call.x = 31 /\ call.y = 8 /\ ~call.lit /\ displayStyle = 1
  /\ <<offsetX + 310, offsetY + 84>> \in call.writes
  /\ <<offsetX + 319, offsetY + 93>> \in call.writes
  /\ Cardinality(call.writes) = LED_SIZE * LED_SIZE

(* C30: across the wrap of millis() from 2^32 - 1 to 0 a pass of loop()    *)
(* with a valid time changes the mode exactly when more than               *)
(* MODE_SWITCH_INTERVAL real milliseconds have passed since the last       *)
(* change, and then records millis() as the time of the change.            *)
C30_ModeSwitchSurvivesWrap ==
  [][TickStep /\ synced =>
       /\ currentMode' # currentMode <=> now - switchedAt > MODE_SWITCH_INTERVAL
       /\ currentMode' # currentMode =>
            /\ currentMode' = (currentMode + 1) % 3
            /\ lastModeSwitch' = millis
            /\ switchedAt' = now
       /\ currentMode' = currentMode =>
            lastModeSwitch' = lastModeSwitch /\ switchedAt' = switchedAt]_vars

C30_Witness ==
  /\ op = "tick" /\ pc = "handle"
  /\ switchedAt > MODE_SWITCH_INTERVAL
  /\ lastModeSwitch[1] = 0 /\ lastModeSwitch[2] < MODE_SWITCH_INTERVAL
  /\ millis[1] = 0
=============================================================================
